---- MODULE Spec2Model ----
(***************************************************************************)
(* A model of the AM5 motherboard sheet loader: the header reconstructors  *)
(* (data_loader.process_headers, loaders/header_parser), the header tree   *)
(* builders (data_transformer.build_header_tree, data_loader.add_to_tree)  *)
(* and the record unflattener (data_transformer.unflatten_record).         *)
(*                                                                         *)
(* Text is modelled as a sequence of atoms.  An atom stands for a fixed    *)
(* run of characters; the atoms are chosen so that no atom's text occurs   *)
(* inside another atom or across two atoms, hence string equality is       *)
(* sequence equality, concatenation is \o, and Python's `t in s` is "t is  *)
(* a contiguous subsequence of s".  The atom "|" is the pipe character.    *)
(***************************************************************************)
EXTENDS Integers, Sequences, FiniteSets, TLC

VARIABLES
    pc,             \* position of the running program
    record,         \* unflatten_record: the flat record, a sequence of <<key, value>> in dict order
    upos,           \* unflatten_record: index of the next item of record.items()
    nested,         \* unflatten_record: the nested dict being built (path |-> entry)
    srcDoc,         \* the SpecDocument a record was flattened from (round trip only)
    impl,           \* which implementation the run calls
    columns_info,   \* the ColumnDescriptor list, a sequence of [key, name, path]
    tpos,           \* tree builders: index of the next descriptor
    tree,           \* tree builders: the tree being built
    results,        \* tree builders: what the finished calls returned
    sheet,          \* the worksheet's header block: [cells, merges]
    col_idx,        \* header reconstructors: the column being read (1-based)
    seen_signatures,        \* process_headers
    seen_key_counts,        \* process_headers
    last_valid_col_info,    \* process_headers: <<>> is None, else <<descriptor>>
    seen_keys,              \* parse_multi_level_headers
    base_keys,      \* history: the base key of every column that reached key generation
    book,           \* load_data: the sheets of the workbook, in the order they are loaded
    sheet_pos,      \* load_data: position in the list of sheets
    all_mobos,      \* load_data: the records collected so far
    structure_built,        \* load_data: the header tree has been built
    args,           \* the arguments of a function that is called on its own
    ret             \* its result

uvars == <<record, upos, nested, srcDoc>>
tvars == <<tpos, tree, results>>
hvars == <<sheet, col_idx, seen_signatures, seen_key_counts, last_valid_col_info,
           seen_keys, base_keys>>
lvars == <<book, sheet_pos, all_mobos, structure_built>>
fvars == <<args, ret>>
vars == <<pc, impl, columns_info, uvars, tvars, hvars, lvars, fvars>>

\* what the variables hold while the program that owns them is not running
IdleUnflatten ==
    /\ record = <<>>
    /\ upos = 1
    /\ nested = <<>>
    /\ srcDoc = <<>>

IdleTree ==
    /\ tpos = 1
    /\ tree = <<>>
    /\ results = <<>>

IdleBook ==
    /\ book = <<>>
    /\ sheet_pos = 1
    /\ all_mobos = <<>>
    /\ structure_built = FALSE

IdleCall ==
    /\ args = <<>>
    /\ ret = <<>>

IdleHeaders ==
    /\ sheet = <<>>
    /\ col_idx = 1
    /\ seen_signatures = {}
    /\ seen_key_counts = <<>>
    /\ last_valid_col_info = <<>>
    /\ seen_keys = {}
    /\ base_keys = <<>>

----------------------------------------------------------------------------
(* Text *)

Pipe == "|"
Space == " "
Newline == "\n"
Tab == "\t"
Whitespace == { Space, Newline, Tab }
NoneValue == <<"<None>">>      \* Python's None, which is no string

Contains(s, t) ==
    \E i \in 0..(Len(s) - Len(t)) : \A j \in 1..Len(t) : s[i + j] = t[j]

HasAtom(s, a) == \E i \in 1..Len(s) : s[i] = a

RECURSIVE LStrip(_)
LStrip(s) == IF s # <<>> /\ Head(s) \in Whitespace THEN LStrip(Tail(s)) ELSE s

RECURSIVE RStrip(_)
RStrip(s) ==
    IF s # <<>> /\ s[Len(s)] \in Whitespace THEN RStrip(SubSeq(s, 1, Len(s) - 1)) ELSE s

Strip(s) == RStrip(LStrip(s))

\* key.split('|'): always at least one part, empty parts kept
RECURSIVE Split(_)
Split(s) ==
    IF ~HasAtom(s, Pipe) THEN <<s>>
    ELSE LET i == CHOOSE i \in 1..Len(s) :
                      s[i] = Pipe /\ \A j \in 1..(i - 1) : s[j] # Pipe
         IN  <<SubSeq(s, 1, i - 1)>> \o Split(SubSeq(s, i + 1, Len(s)))

\* '|'.join(parts)
RECURSIVE Join(_)
Join(parts) ==
    IF parts = <<>> THEN <<>>
    ELSE IF Len(parts) = 1 THEN parts[1]
    ELSE parts[1] \o <<Pipe>> \o Join(Tail(parts))

\* s.replace('\n', ' ')
ReplaceNewlines(s) == [i \in 1..Len(s) |-> IF s[i] = Newline THEN Space ELSE s[i]]

\* the words that have no upper-case letter
LowerCaseWords ==
    { Space, Newline, Pipe, "_", "-", "0", "1", "2", "3", "4",
      "audio", "codec", "header", "bios", "flash", "usb", "use", "the", "tabs",
      "missing/incorrect", "information", "contact", "me", "nan", "brand", "model",
      "motherboard", "lane-sharing", "bifurcation", "notes", "details" }

\* s.lower(), word by word
LowerWord(w) ==
    CASE w \in LowerCaseWords -> w
      [] w = "Audio" -> "audio"
      [] w = "Codec" -> "codec"
      [] w = "Header" -> "header"
      [] w = "BIOS" -> "bios"
      [] w = "Flash" -> "flash"
      [] w = "USB" -> "usb"
      [] w = "Use" -> "use"
      [] w = "Missing/incorrect" -> "missing/incorrect"
      [] w = "Contact" -> "contact"
      [] w = "NaN" -> "nan"
      [] w = "Brand" -> "brand"
      [] w = "Model" -> "model"
      [] w = "Motherboard" -> "motherboard"
      [] w = "Lane-sharing" -> "lane-sharing"
      [] w = "Notes" -> "notes"
      [] w = "Details" -> "details"

Lower(s) == [i \in 1..Len(s) |-> LowerWord(s[i])]

\* len(w) of the words header texts are made of
WordLen(w) ==
    CASE w \in { Space, Newline, Pipe, "_", "-", "0", "1", "2", "3", "4" } -> 1
      [] w \in { "me" } -> 2
      [] w \in { "USB", "usb", "nan", "NaN", "Use", "use", "the" } -> 3
      [] w \in { "BIOS", "bios", "tabs" } -> 4
      [] w \in { "Audio", "audio", "Codec", "codec", "Flash", "flash",
                 "Brand", "brand", "Model", "model", "Notes", "notes" } -> 5
      [] w \in { "Header", "header" } -> 6
      [] w \in { "Contact", "contact", "Details", "details" } -> 7
      [] w \in { "Motherboard", "motherboard", "bifurcation" } -> 11
      [] w \in { "Lane-sharing", "lane-sharing" } -> 12
      [] w \in { "Missing/incorrect", "missing/incorrect" } -> 17

RECURSIVE StrLen(_)
StrLen(s) == IF s = <<>> THEN 0 ELSE WordLen(Head(s)) + StrLen(Tail(s))

Front(s) == SubSeq(s, 1, Len(s) - 1)
Last(s) == s[Len(s)]

----------------------------------------------------------------------------
(* unflatten_record *)

\* A nested dict is the map from the path of each of its entries to the entry.
DictEntry == [isDict |-> TRUE, val |-> <<>>]
LeafEntry(v) == [isDict |-> FALSE, val |-> v]
EmptyDoc == [p \in {} |-> DictEntry]

NotesDetails == <<"Notes", Pipe, "Details">>

IsAliasKey(key) == HasAtom(key, "Lane-sharing") /\ HasAtom(key, "bifurcation")

AliasKey(key) == IF IsAliasKey(key) THEN NotesDetails ELSE key

CleanVal(value) == IF value = NoneValue THEN <<>> ELSE Strip(value)

\* The loop over parts[:-1].  cur is the path of `current` inside nested;
\* detached says that `current` is a fresh dict that nested does not hold.
RECURSIVE Navigate(_, _, _, _)
Navigate(doc, cur, detached, rest) ==
    IF rest = <<>> THEN [doc |-> doc, cur |-> cur, detached |-> detached]
    ELSE IF detached THEN Navigate(doc, cur, TRUE, Tail(rest))
    ELSE LET p == Append(cur, Head(rest))
             d1 == IF p \in DOMAIN doc THEN doc ELSE doc @@ (p :> DictEntry)
         IN  Navigate(d1, p, ~d1[p].isDict, Tail(rest))

BranchWins(doc, path) == path \in DOMAIN doc /\ doc[path].isDict

\* mutation: the scalar overwrites the branch
SetLeafOverwrite(doc, path, clean_val) ==
    IF path \in DOMAIN doc THEN [doc EXCEPT ![path] = LeafEntry(clean_val)]
    ELSE doc @@ (path :> LeafEntry(clean_val))

SetLeaf(doc, path, clean_val) ==
    IF BranchWins(doc, path) THEN doc
    ELSE IF path \in DOMAIN doc THEN [doc EXCEPT ![path] = LeafEntry(clean_val)]
    ELSE doc @@ (path :> LeafEntry(clean_val))

\* mutation: empty and placeholder values are not stored
UnflattenItemSkipPlaceholder(doc, key, value) ==
    LET parts == Split(AliasKey(key))
        nav == Navigate(doc, <<>>, FALSE, Front(parts))
    IN  IF nav.detached \/ CleanVal(value) \in {<<>>, <<"-">>} THEN nav.doc
        ELSE SetLeaf(nav.doc, Append(nav.cur, Last(parts)), CleanVal(value))

\* one iteration of `for key, value in record.items()`
UnflattenItem(doc, key, value) ==
    LET parts == Split(AliasKey(key))
        nav == Navigate(doc, <<>>, FALSE, Front(parts))
    IN  IF nav.detached THEN nav.doc
        ELSE SetLeaf(nav.doc, Append(nav.cur, Last(parts)), CleanVal(value))

UnflattenStep ==
    /\ pc = "unflatten"
    /\ upos <= Len(record)
    /\ nested' = UnflattenItem(nested, record[upos][1], record[upos][2])
    /\ upos' = upos + 1
    /\ UNCHANGED <<lvars, fvars, pc, record, srcDoc, impl, columns_info, tvars, hvars>>

UnflattenReturn ==
    /\ pc = "unflatten"
    /\ upos > Len(record)
    /\ pc' = "done"
    /\ UNCHANGED <<lvars, fvars, uvars, impl, columns_info, tvars, hvars>>

----------------------------------------------------------------------------
(* Records handed to unflatten_record *)

MaxRecLen == 3

RecKeys ==
    { <<"A">>, <<"A", Pipe, "B">>, <<"A", Pipe, "B", Pipe, "C">>,
      <<"P", Pipe, "Lane-sharing", "bifurcation">>, NotesDetails }

RecValues == { NoneValue, <<"-">>, <<"x">>, <<Space, "y">> }

DistinctKeys(r) == \A i, j \in 1..Len(r) : i # j => r[i][1] # r[j][1]

SeqsToSets(S, n) == { { q[i] : i \in 1..Len(q) } : q \in UNION { [1..k -> S] : k \in 0..n } }

SeqsUpTo(S, n) == UNION { [1..k -> S] : k \in 0..n }

Records == { r \in SeqsUpTo(RecKeys \X RecValues, MaxRecLen) : DistinctKeys(r) }

InitUnflatten ==
    /\ pc = "unflatten"
    /\ record \in Records
    /\ upos = 1
    /\ nested = EmptyDoc
    /\ srcDoc = EmptyDoc
    /\ impl = "unflatten_record"
    /\ columns_info = <<>>
    /\ IdleTree
    /\ IdleHeaders
    /\ IdleBook
    /\ IdleCall

NextUnflatten == UnflattenStep \/ UnflattenReturn

SpecUnflatten == InitUnflatten /\ [][NextUnflatten]_vars

----------------------------------------------------------------------------
(* Round trip: records that are the flattening of a SpecDocument *)

MaxDocEntries == 3

DocSegs == { <<"A">>, <<"B">>, <<"Lane-sharing", "bifurcation">>, <<"A", Pipe, "B">> }

DocPaths == { <<s>> : s \in DocSegs } \cup { <<s, t>> : s \in DocSegs, t \in DocSegs }

DocValues == { <<"x">>, <<"-">> }

PrefixClosed(S) == \A p \in S : Len(p) > 1 => Front(p) \in S

HasChild(S, p) == \E q \in S : Len(q) = Len(p) + 1 /\ Front(q) = p

DocShapes ==
    { S \in SeqsToSets(DocPaths, MaxDocEntries) : PrefixClosed(S) }

\* nested mappings with trimmed string leaves; a nested mapping may be empty
Docs ==
    UNION { { d \in [S -> {DictEntry} \cup { LeafEntry(v) : v \in DocValues }] :
                \A p \in S : HasChild(S, p) => d[p].isDict } : S \in DocShapes }

LeafPaths(doc) == { p \in DOMAIN doc : ~doc[p].isDict }

\* the flat form: one item per leaf, keyed by the pipe-joined path
Flatten(doc) == { <<Join(p), doc[p].val>> : p \in LeafPaths(doc) }

Orderings(S) ==
    { r \in [1..Cardinality(S) -> S] : \A i, j \in 1..Cardinality(S) : i # j => r[i] # r[j] }

InitRoundTrip ==
    /\ pc = "unflatten"
    /\ srcDoc \in Docs
    /\ record \in Orderings(Flatten(srcDoc))
    /\ DistinctKeys(record)
    /\ upos = 1
    /\ nested = EmptyDoc
    /\ impl = "unflatten_record"
    /\ columns_info = <<>>
    /\ IdleTree
    /\ IdleHeaders
    /\ IdleBook
    /\ IdleCall

SpecRoundTrip == InitRoundTrip /\ [][NextUnflatten]_vars

----------------------------------------------------------------------------
(* Properties of unflatten_record *)

WrittenPath(i) == Split(AliasKey(record[i][1]))

\* C3: once a path holds a nested mapping, a write of a scalar (empty, '-'
\* or a real value) to that same path is dropped: the write leaves the whole
\* nested dict, the mapping and its contents included, as it was.
C3_BranchKeptOnScalarWrite ==
    [][ ( /\ pc = "unflatten"
          /\ upos <= Len(record)
          /\ BranchWins(nested, WrittenPath(upos)) )
        => nested' = nested ]_vars

\* a real value was written to a path that holds a mapping, after the
\* mapping had been filled
C3_Witness ==
    /\ upos > 2
    /\ record[upos - 1][2] = <<"x">>
    /\ BranchWins(nested, WrittenPath(upos - 1))
    /\ \E p \in DOMAIN nested :
          Len(p) > Len(WrittenPath(upos - 1)) /\ ~nested[p].isDict

\* key j names a child of the path of key i
ChildKey(i, j) ==
    /\ ~IsAliasKey(record[i][1]) /\ ~IsAliasKey(record[j][1])
    /\ Len(WrittenPath(j)) = Len(WrittenPath(i)) + 1
    /\ Front(WrittenPath(j)) = WrittenPath(i)

\* C4: when a record holds a key P and a key P|Q (P|Q having no children of
\* its own), the output holds a mapping at P with the value of P|Q at Q,
\* whichever of the two keys comes first in the record.
C4_StructureWinsAnyOrder ==
    pc = "done" =>
        \A i, j \in 1..Len(record) :
            ( ChildKey(i, j) /\ ~\E k \in 1..Len(record) : ChildKey(j, k) )
            => /\ BranchWins(nested, WrittenPath(i))
               /\ WrittenPath(j) \in DOMAIN nested
               /\ nested[WrittenPath(j)] = LeafEntry(CleanVal(record[j][2]))

\* no leaf's key is a prefix of (or equal to) another leaf's key
NoCollision(doc) ==
    \A p, q \in LeafPaths(doc) :
        p # q =>
            LET a == Split(Join(p))
                b == Split(Join(q))
            IN  ~(Len(a) <= Len(b) /\ SubSeq(b, 1, Len(a)) = a)

\* C5 as stated: every nested mapping with trimmed string leaves and no
\* branch/scalar collision is reconstructed by unflatten(flatten(doc)).
C5_RoundTrip ==
    (pc = "done" /\ NoCollision(srcDoc)) => nested = srcDoc

\* no key segment holds a pipe, no nested mapping is empty, and no leaf's
\* pipe-joined path is one that unflatten_record rewrites to Notes|Details
PlainDoc(doc) ==
    /\ \A p \in DOMAIN doc : \A i \in 1..Len(p) : ~HasAtom(p[i], Pipe)
    /\ \A p \in DOMAIN doc : doc[p].isDict => HasChild(DOMAIN doc, p)
    /\ \A p \in LeafPaths(doc) : ~IsAliasKey(Join(p))

\* C5 amended: the round trip reconstructs every such document whose key
\* segments hold no pipe, that has no empty nested mapping and no leaf path
\* containing both "Lane-sharing" and "bifurcation".
C5_RoundTripPlain ==
    (pc = "done" /\ NoCollision(srcDoc) /\ PlainDoc(srcDoc)) => nested = srcDoc

C5_Witness ==
    /\ pc = "done"
    /\ PlainDoc(srcDoc)
    /\ Cardinality(LeafPaths(srcDoc)) >= 2
    /\ \E p \in LeafPaths(srcDoc) : Len(p) = 2 /\ srcDoc[p].val = <<"-">>
    /\ nested = srcDoc

----------------------------------------------------------------------------
(* Keys of column descriptors *)

IdentityColumns == { <<"Brand">>, <<"Model">>, <<"Chipset">> }

\* header_parser.normalize_header_key
NormalizeHeaderKey(path_parts, leaf_name) ==
    LET full_key == Join(Append(path_parts, leaf_name))
    IN  IF full_key \in IdentityColumns THEN full_key
        ELSE IF leaf_name \in IdentityColumns THEN leaf_name
        ELSE full_key

\* data_loader.process_headers, "Key Gen"
BaseKey(clean_parents, leaf_val) ==
    IF leaf_val \in { <<"Brand">>, <<"Make">> } THEN <<"Brand">>
    ELSE IF leaf_val \in { <<"Model">>, <<"Board", Space, "Name">> } THEN <<"Model">>
    ELSE IF leaf_val \in { <<"Chipset">>, <<"Form", Space, "Factor">> } THEN leaf_val
    ELSE Join(Append(clean_parents, leaf_val))

\* f"{base_key}_{n}"
Suffixed(base_key, n) == base_key \o <<"_", ToString(n)>>

\* seen_key_counts.get(base_key), 0 when the key was not seen
SeenCount(counts, base_key) ==
    IF base_key \in DOMAIN counts THEN counts[base_key] ELSE 0

\* data_loader.process_headers, "Unique Key Enforcement"
FinalKey(counts, base_key) ==
    IF base_key \in DOMAIN counts THEN Suffixed(base_key, counts[base_key] + 1)
    ELSE base_key

CountKey(counts, base_key) ==
    IF base_key \in DOMAIN counts THEN [counts EXCEPT ![base_key] = @ + 1]
    ELSE counts @@ (base_key :> 1)

NoCounts == [k \in {} |-> 0]

RearIOImage == <<"Rear", Space, "I/O", Space, "Image">>
TotalUSB == <<"Total", Space, "USB">>

\* process_headers: the test of the override to Notes / Details, on the leaf
OverrideAliases(leaf_val) ==
    HasAtom(leaf_val, "Lane-sharing") /\ HasAtom(leaf_val, "bifurcation")

\* process_headers: "Override"
LegacyOverride(clean_parents, leaf_val) ==
    IF Contains(leaf_val, RearIOImage)
    THEN [path |-> <<RearIOImage>>, name |-> <<"View">>]
    ELSE IF Contains(leaf_val, TotalUSB)
    THEN [path |-> << <<"Rear", Space, "I/O">>, <<"USB">> >>, name |-> leaf_val]
    ELSE IF OverrideAliases(leaf_val)
    THEN [path |-> << <<"Notes">> >>, name |-> <<"Details">>]
    ELSE [path |-> clean_parents, name |-> leaf_val]

----------------------------------------------------------------------------
(* Header trees: build_header_tree and add_to_tree *)

\* {'name': name, 'children': children}
BranchNode(name, children) ==
    [name |-> name, hasKey |-> FALSE, key |-> <<>>,
     hasChildren |-> TRUE, children |-> children]

\* {'name': name, 'key': key}
LeafNode(name, key) ==
    [name |-> name, hasKey |-> TRUE, key |-> key,
     hasChildren |-> FALSE, children |-> <<>>]

\* index of the first node of the level with this name, 0 when there is none
FindNode(level, name) ==
    IF \E i \in 1..Len(level) : level[i].name = name
    THEN CHOOSE i \in 1..Len(level) :
            level[i].name = name /\ \A j \in 1..(i - 1) : level[j].name # name
    ELSE 0

\* add_to_tree: the first node with this name that has 'children'
FindBranch(level, name) ==
    IF \E i \in 1..Len(level) : level[i].name = name /\ level[i].hasChildren
    THEN CHOOSE i \in 1..Len(level) :
            /\ level[i].name = name /\ level[i].hasChildren
            /\ \A j \in 1..(i - 1) : ~(level[j].name = name /\ level[j].hasChildren)
    ELSE 0

\* build_header_tree: the alias, which updates the descriptor in place
AliasCol(col) ==
    IF IsAliasKey(col.key)
    THEN [col EXCEPT !.path = << <<"Notes">> >>, !.name = <<"Details">>,
                     !.key = NotesDetails]
    ELSE col

FullPath(col) == Append(col.path, col.name)

\* parent['children'] of a node that has no 'children' raises KeyError
RECURSIVE WalkRaises(_, _)
WalkRaises(level, full_path) ==
    /\ Len(full_path) > 1
    /\ LET i == FindNode(level, Head(full_path))
       IN  /\ i # 0
           /\ \/ ~level[i].hasChildren
              \/ WalkRaises(level[i].children, Tail(full_path))

\* mutation: a leaf that finds a node of its name replaces the node
RECURSIVE InsertPathReplace(_, _, _)
InsertPathReplace(level, full_path, key) ==
    LET part == Head(full_path)
        i == FindNode(level, part)
    IN  IF Len(full_path) = 1
        THEN IF i # 0 THEN [level EXCEPT ![i] = LeafNode(part, key)]
             ELSE Append(level, LeafNode(part, key))
        ELSE IF i = 0
             THEN Append(level, BranchNode(part, InsertPathReplace(<<>>, Tail(full_path), key)))
             ELSE [level EXCEPT ![i].children = InsertPathReplace(@, Tail(full_path), key)]

\* build_header_tree: the walk over full_path (get_or_create_node for the
\* parents, update or append for the leaf)
RECURSIVE InsertPath(_, _, _)
InsertPath(level, full_path, key) ==
    LET part == Head(full_path)
        i == FindNode(level, part)
    IN  IF Len(full_path) = 1
        THEN IF i # 0 THEN [level EXCEPT ![i].hasKey = TRUE, ![i].key = key]
             ELSE Append(level, LeafNode(part, key))
        ELSE IF i = 0
             THEN Append(level, BranchNode(part, InsertPath(<<>>, Tail(full_path), key)))
             ELSE [level EXCEPT ![i].children = InsertPath(@, Tail(full_path), key)]

\* mutation: the path is read before the alias updates the descriptor
BuildColStalePath(level, col) ==
    InsertPath(level, FullPath(col), AliasCol(col).key)

\* build_header_tree: one iteration of `for col in columns_info`
BuildCol(level, col) ==
    InsertPath(level, FullPath(AliasCol(col)), AliasCol(col).key)

\* data_loader.add_to_tree
RECURSIVE AddToTree(_, _, _, _)
AddToTree(level, path, leaf_key, leaf_name) ==
    IF path = <<>> THEN Append(level, LeafNode(leaf_name, leaf_key))
    ELSE IF Head(path) = <<>> THEN AddToTree(level, Tail(path), leaf_key, leaf_name)
    ELSE LET i == FindBranch(level, Head(path))
         IN  IF i = 0
             THEN Append(level, BranchNode(Head(path),
                                   AddToTree(<<>>, Tail(path), leaf_key, leaf_name)))
             ELSE [level EXCEPT ![i].children =
                                   AddToTree(@, Tail(path), leaf_key, leaf_name)]

Returned(t) == [raised |-> FALSE, tree |-> t]
Raised == [raised |-> TRUE, tree |-> <<>>]

\* build_header_tree runs on its own or as step 4 of load_data
BuildHeaderTreeCallers == { "build_header_tree", "load_data" }

\* build_header_tree on its own is called twice on the same list; load_data
\* calls it once and add_to_tree's loop runs once
Calls == IF impl = "build_header_tree" THEN 2 ELSE 1

\* load_data goes on to read the rows
AfterCall ==
    IF Len(results) + 1 < Calls THEN "build"
    ELSE IF impl = "load_data" THEN "rows" ELSE "done"

\* an exception ends load_data
AfterRaise == IF impl = "load_data" THEN "done" ELSE AfterCall

BuildStep ==
    /\ pc = "build"
    /\ impl \in BuildHeaderTreeCallers
    /\ tpos <= Len(columns_info)
    /\ ~WalkRaises(tree, FullPath(AliasCol(columns_info[tpos])))
    /\ columns_info' = [columns_info EXCEPT ![tpos] = AliasCol(@)]
    /\ tree' = BuildCol(tree, columns_info[tpos])
    /\ tpos' = tpos + 1
    /\ UNCHANGED <<lvars, fvars, pc, impl, results, uvars, hvars>>

BuildRaise ==
    /\ pc = "build"
    /\ impl \in BuildHeaderTreeCallers
    /\ tpos <= Len(columns_info)
    /\ WalkRaises(tree, FullPath(AliasCol(columns_info[tpos])))
    /\ columns_info' = [columns_info EXCEPT ![tpos] = AliasCol(@)]
    /\ results' = Append(results, Raised)
    /\ tree' = <<>>
    /\ tpos' = 1
    /\ pc' = AfterRaise
    /\ UNCHANGED <<lvars, fvars, impl, uvars, hvars>>

AddToTreeStep ==
    /\ pc = "build"
    /\ impl = "add_to_tree"
    /\ tpos <= Len(columns_info)
    /\ LET col == columns_info[tpos]
       IN  tree' = AddToTree(tree, col.path, col.key, col.name)
    /\ tpos' = tpos + 1
    /\ UNCHANGED <<lvars, fvars, pc, impl, columns_info, results, uvars, hvars>>

BuildReturn ==
    /\ pc = "build"
    /\ tpos > Len(columns_info)
    /\ results' = Append(results, Returned(tree))
    /\ tree' = IF AfterCall = "build" THEN <<>> ELSE tree
    /\ tpos' = 1
    /\ pc' = AfterCall
    /\ UNCHANGED <<lvars, fvars, impl, columns_info, uvars, hvars>>

----------------------------------------------------------------------------
(* Descriptor lists handed to the tree builders *)

MaxCols == 3

LaneNote == <<"Lane-sharing", "bifurcation">>

TreeNames == { <<"Audio">>, <<"Codec">>, LaneNote }

TreePaths == { <<>>, << <<"Audio">> >>, << <<"Audio">>, <<"Codec">> >> }

Headers == [path : TreePaths, name : TreeNames]

\* the keys parse_multi_level_headers gives; it keeps one column per key
ParsedCols(hs) ==
    [i \in 1..Len(hs) |->
        [key |-> NormalizeHeaderKey(hs[i].path, hs[i].name),
         name |-> hs[i].name, path |-> hs[i].path, col_idx |-> i - 1]]

\* the keys process_headers gives, suffixed on collision
RECURSIVE LegacyCols(_, _, _)
LegacyCols(hs, counts, done) ==
    IF Len(done) = Len(hs) THEN done
    ELSE LET h == LegacyOverride(hs[Len(done) + 1].path, hs[Len(done) + 1].name)
             base_key == BaseKey(h.path, h.name)
         IN  LegacyCols(hs, CountKey(counts, base_key),
                        Append(done, [key |-> FinalKey(counts, base_key),
                                      name |-> h.name, path |-> h.path,
                                      col_idx |-> Len(done)]))

DistinctColKeys(cols) ==
    \A i, j \in 1..Len(cols) : i # j => cols[i].key # cols[j].key

InitTree ==
    /\ pc = "build"
    /\ impl \in { "build_header_tree", "add_to_tree" }
    /\ \E hs \in SeqsUpTo(Headers, MaxCols) :
          IF impl = "build_header_tree"
          THEN columns_info = ParsedCols(hs) /\ DistinctColKeys(columns_info)
          ELSE columns_info = LegacyCols(hs, NoCounts, <<>>)
    /\ tpos = 1
    /\ tree = <<>>
    /\ results = <<>>
    /\ IdleUnflatten
    /\ IdleHeaders
    /\ IdleBook
    /\ IdleCall

NextTree == BuildStep \/ BuildRaise \/ AddToTreeStep \/ BuildReturn

SpecTree == InitTree /\ [][NextTree]_vars

----------------------------------------------------------------------------
(* Properties of the header tree builders *)

RECURSIVE NoSiblingsShareName(_)
NoSiblingsShareName(level) ==
    /\ \A i, j \in 1..Len(level) : i # j => level[i].name # level[j].name
    /\ \A i \in 1..Len(level) : NoSiblingsShareName(level[i].children)

\* C6: in the tree under construction and in every tree returned, by
\* build_header_tree and by add_to_tree alike, no two sibling nodes (two
\* roots, or two children of one parent) have the same name.
C6_NoSiblingsShareName ==
    /\ NoSiblingsShareName(tree)
    /\ \A r \in 1..Len(results) : NoSiblingsShareName(results[r].tree)

\* every part of the path names a node of its level that has children
RECURSIVE Resolves(_, _)
Resolves(level, path) ==
    \/ path = <<>>
    \/ LET i == FindNode(level, Head(path))
       IN  i # 0 /\ level[i].hasChildren /\ Resolves(level[i].children, Tail(path))

\* the list of nodes the path leads to
RECURSIVE LevelAt(_, _)
LevelAt(level, path) ==
    IF path = <<>> THEN level
    ELSE LevelAt(level[FindNode(level, Head(path))].children, Tail(path))

\* the next descriptor names, as a leaf, a node that exists with children
LeafHitsBranch ==
    /\ pc = "build"
    /\ impl = "build_header_tree"
    /\ tpos <= Len(columns_info)
    /\ LET col == AliasCol(columns_info[tpos])
       IN  /\ Resolves(tree, col.path)
           /\ FindNode(LevelAt(tree, col.path), col.name) # 0
           /\ LevelAt(tree, col.path)[FindNode(LevelAt(tree, col.path), col.name)].hasChildren

\* C7: when a descriptor targets, as a leaf, a name that exists at that level
\* as a branch, build_header_tree gives the existing node the descriptor's
\* key: the level has as many nodes as before, in the same order, and the
\* node keeps its children.
C7_BranchUpgradedInPlace ==
    [][ LeafHitsBranch =>
          LET col == AliasCol(columns_info[tpos])
              before == LevelAt(tree, col.path)
              after == LevelAt(tree', col.path)
              i == FindNode(before, col.name)
          IN  /\ Resolves(tree', col.path)
              /\ Len(after) = Len(before)
              /\ \A k \in 1..Len(before) : after[k].name = before[k].name
              /\ after[i].hasChildren
              /\ after[i].children = before[i].children
              /\ after[i].hasKey
              /\ after[i].key = col.key ]_vars

\* a node of the tree has both a key and children
RECURSIVE HasUpgradedNode(_)
HasUpgradedNode(level) ==
    \E i \in 1..Len(level) :
        \/ level[i].hasKey /\ level[i].hasChildren /\ level[i].children # <<>>
        \/ HasUpgradedNode(level[i].children)

C7_Witness ==
    /\ impl = "build_header_tree"
    /\ pc = "build"
    /\ tpos > 1
    /\ HasUpgradedNode(tree)

\* C8: build_header_tree called twice on the same list, the second call
\* receiving the list as the first call left it, gives the same outcome
\* twice: structurally identical trees (or the same failure), also when the
\* list holds descriptors whose key contains "Lane-sharing" and "bifurcation".
C8_BuildTwiceSameTree ==
    (pc = "done" /\ impl = "build_header_tree") => results[1] = results[2]

C8_Witness ==
    /\ pc = "done"
    /\ impl = "build_header_tree"
    /\ ~results[1].raised
    /\ results[1] = results[2]
    /\ \E i \in 1..Len(columns_info) :
          columns_info[i].key = NotesDetails /\ columns_info[i].path = << <<"Notes">> >>
    /\ Len(results[2].tree) >= 2

----------------------------------------------------------------------------
(* The worksheet's header block *)

Rows(ws) == Len(ws.cells)
Cols(ws) == Len(ws.cells[1])

Covers(mr, r, c) ==
    r >= mr.min_row /\ r <= mr.max_row /\ c >= mr.min_col /\ c <= mr.max_col

\* index of the first merge range that covers the cell, 0 when there is none
MergeFor(ws, r, c) ==
    IF \E k \in 1..Len(ws.merges) : Covers(ws.merges[k], r, c)
    THEN CHOOSE k \in 1..Len(ws.merges) :
            /\ Covers(ws.merges[k], r, c)
            /\ \A j \in 1..(k - 1) : ~Covers(ws.merges[j], r, c)
    ELSE 0

\* the value read for a cell: its own, or the merge origin's when it has none
MergedValue(ws, r, c) ==
    LET k == MergeFor(ws, r, c)
    IN  IF ws.cells[r][c] = NoneValue /\ k # 0
        THEN ws.cells[ws.merges[k].min_row][ws.merges[k].min_col]
        ELSE ws.cells[r][c]

\* str(val).strip().replace('\n', ' ') if val is not None else ""
CleanCell(val) == IF val = NoneValue THEN <<>> ELSE ReplaceNewlines(Strip(val))

\* CellOrigin of the data model: the top-left cell of the merge range that
\* covers the cell, or the cell itself
CellOrigin(ws, r, c) ==
    LET k == MergeFor(ws, r, c)
    IN  IF k # 0
        THEN <<"M", ws.merges[k].min_row, ws.merges[k].min_col>>
        ELSE <<"C", r, c>>

\* process_headers: OriginID, "M_r_c" for a merge and "C_r_c" for a single cell
OriginId(ws, r, c) ==
    LET k == MergeFor(ws, r, c)
    IN  IF ws.cells[r][c] = NoneValue /\ k # 0
        THEN <<"M", ws.merges[k].min_row, ws.merges[k].min_col>>
        ELSE <<"C", r, c>>

\* process_headers: header_matrix
HeaderMatrix(ws) ==
    [r \in 1..Rows(ws) |->
        [c \in 1..Cols(ws) |->
            [val |-> CleanCell(MergedValue(ws, r, c)), id |-> OriginId(ws, r, c)]]]

UseTheTabs == <<"use", Space, "the", Space, "tabs">>
MissingIncorrect == <<"missing/incorrect">>
ContactMe == <<"contact", Space, "me">>

\* process_headers: "Filter hierarchy garbage"
IsGarbageRow(r_data) ==
    LET first_val == Lower(r_data[1].val)
    IN  \/ Contains(first_val, UseTheTabs)
        \/ Contains(first_val, MissingIncorrect)
        \/ Contains(first_val, ContactMe)
        \/ \A c \in 1..Len(r_data) : r_data[c].val = <<>>

NotGarbage(r_data) == ~IsGarbageRow(r_data)

HierarchyRows(ws) == SelectSeq(Front(HeaderMatrix(ws)), NotGarbage)

LeafRow(ws) == Last(HeaderMatrix(ws))

\* process_headers: signature
Signature(ws, c) ==
    Append([k \in 1..Len(HierarchyRows(ws)) |-> HierarchyRows(ws)[k][c].id],
           LeafRow(ws)[c].id)

----------------------------------------------------------------------------
(* process_headers (data_loader.py): one column *)

NonEmpty(p) == p # <<>>

\* "Dedupe consecutive parents"
RECURSIVE DedupeConsecutive(_)
DedupeConsecutive(ps) ==
    IF Len(ps) <= 1 THEN ps
    ELSE LET d == DedupeConsecutive(Front(ps))
         IN  IF Last(ps) # Last(d) THEN Append(d, Last(ps)) ELSE d

ShouldPop(last_p, l_name) ==
    \/ Strip(l_name) = Strip(last_p)
    \/ /\ StrLen(l_name) > 4 /\ StrLen(last_p) > 4
       /\ Contains(last_p, l_name)

\* "Flatten leaf - Recursive pop"
RECURSIVE FlattenLeaf(_, _)
FlattenLeaf(clean_parents, leaf_val) ==
    IF clean_parents # <<>> /\ ShouldPop(Lower(Last(clean_parents)), Lower(leaf_val))
    THEN FlattenLeaf(Front(clean_parents), leaf_val)
    ELSE clean_parents

LegacyLeafVal(ws, c) ==
    LET v == ReplaceNewlines(LeafRow(ws)[c].val)
    IN  IF Lower(v) = <<"nan">> THEN <<>> ELSE v

LegacyParents(ws, c) ==
    LET h_vals == [k \in 1..Len(HierarchyRows(ws)) |-> HierarchyRows(ws)[k][c].val]
    IN  FlattenLeaf(DedupeConsecutive(SelectSeq(h_vals, NonEmpty)), LegacyLeafVal(ws, c))

\* "AUXILIARY COLUMN DETECTION"
\* mutation: no column is taken for an auxiliary column
IsAuxNever(last_valid, clean_parents, leaf_val) == FALSE

IsAux(last_valid, clean_parents, leaf_val) ==
    /\ last_valid # <<>>
    /\ clean_parents = last_valid[1].path
    /\ leaf_val = <<>>
    /\ last_valid[1].name # <<>>

\* empty leaf, then the override: the parents and the leaf the column is given
LegacyNamed(clean_parents, leaf_val, c) ==
    LET promoted ==
            IF leaf_val # <<>> THEN [path |-> clean_parents, name |-> leaf_val]
            ELSE IF clean_parents # <<>>
                 THEN [path |-> Front(clean_parents), name |-> Last(clean_parents)]
                 ELSE [path |-> clean_parents, name |-> <<"Unnamed", "_", ToString(c - 1)>>]
    IN  LegacyOverride(promoted.path, promoted.name)

\* the descriptor appended for the column
LegacyColInfo(ws, c, counts) ==
    LET named == LegacyNamed(LegacyParents(ws, c), LegacyLeafVal(ws, c), c)
    IN  [key |-> FinalKey(counts, BaseKey(named.path, named.name)),
         name |-> named.name, path |-> named.path, col_idx |-> c - 1]

ProcessHeadersSeen ==
    /\ pc = "headers"
    /\ impl = "process_headers"
    /\ col_idx <= Cols(sheet)
    /\ Signature(sheet, col_idx) \in seen_signatures
    /\ col_idx' = col_idx + 1
    /\ UNCHANGED <<lvars, fvars, pc, impl, columns_info, sheet, seen_signatures, seen_key_counts,
                   last_valid_col_info, seen_keys, base_keys, uvars, tvars>>

ProcessHeadersAux ==
    /\ pc = "headers"
    /\ impl = "process_headers"
    /\ col_idx <= Cols(sheet)
    /\ Signature(sheet, col_idx) \notin seen_signatures
    /\ IsAux(last_valid_col_info, LegacyParents(sheet, col_idx), LegacyLeafVal(sheet, col_idx))
    /\ seen_signatures' = seen_signatures \cup { Signature(sheet, col_idx) }
    /\ col_idx' = col_idx + 1
    /\ UNCHANGED <<lvars, fvars, pc, impl, columns_info, sheet, seen_key_counts,
                   last_valid_col_info, seen_keys, base_keys, uvars, tvars>>

ProcessHeadersEmit ==
    /\ pc = "headers"
    /\ impl = "process_headers"
    /\ col_idx <= Cols(sheet)
    /\ Signature(sheet, col_idx) \notin seen_signatures
    /\ ~IsAux(last_valid_col_info, LegacyParents(sheet, col_idx), LegacyLeafVal(sheet, col_idx))
    /\ LET info == LegacyColInfo(sheet, col_idx, seen_key_counts)
           base_key == BaseKey(info.path, info.name)
       IN  /\ columns_info' = Append(columns_info, info)
           /\ last_valid_col_info' = <<info>>
           /\ seen_key_counts' = CountKey(seen_key_counts, base_key)
           /\ base_keys' = Append(base_keys, base_key)
    /\ seen_signatures' = seen_signatures \cup { Signature(sheet, col_idx) }
    /\ col_idx' = col_idx + 1
    /\ UNCHANGED <<lvars, fvars, pc, impl, sheet, seen_keys, uvars, tvars>>

HeadersReturn ==
    /\ pc = "headers"
    /\ col_idx > Cols(sheet)
    /\ pc' = "done"
    /\ UNCHANGED <<lvars, fvars, impl, columns_info, hvars, uvars, tvars>>

----------------------------------------------------------------------------
(* parse_multi_level_headers (loaders/header_parser.py): one column *)

SkipHeaderPatterns ==
    { <<"use", Space, "the", Space, "tabs">>,
      <<"missing/incorrect", Space, "information">> }

\* header_parser.should_skip_header
ShouldSkipHeader(text) == \E pattern \in SkipHeaderPatterns : Contains(Lower(text), pattern)

\* "Filter and deduplicate parents"
RECURSIVE FilterParents(_, _)
FilterParents(parents, clean_parents) ==
    IF parents = <<>> THEN clean_parents
    ELSE LET parent_norm == Strip(Head(parents))
         IN  IF \/ parent_norm = <<>>
                \/ ShouldSkipHeader(parent_norm)
                \/ (clean_parents # <<>> /\ parent_norm = Last(clean_parents))
             THEN FilterParents(Tail(parents), clean_parents)
             ELSE FilterParents(Tail(parents), Append(clean_parents, parent_norm))

PCIeStoragePath == << <<"Expansion">>, <<"Storage">>, <<"PCIe", Space, "Storage">> >>
TotalM2M == <<"Total", Space, "M.2", Space, "(M)">>
TotalM2 == <<"Total", Space, "M.2">>
M2M == <<"M.2", Space, "(M)">>
MOSHS == <<"MOS", Space, "HS">>

\* "Clean known suffixes and normalize names": the fixed renaming rules
ParserRenamed(clean_parents, leaf_val) ==
    LET leaf1 == IF leaf_val = TotalM2M THEN TotalM2 ELSE leaf_val
        path1 == IF leaf1 \in { <<"AIC">>, TotalM2, M2M } THEN PCIeStoragePath
                 ELSE clean_parents
        leaf2 == IF \/ /\ leaf1 = <<"Heatsink">>
                       /\ \E k \in 1..Len(path1) : HasAtom(path1[k], "VRM")
                    \/ leaf1 = <<"MOS", Space, "Heatsink", Space, "Position">>
                 THEN MOSHS ELSE leaf1
        path2 == IF /\ leaf2 = <<"VRM", Space, "Heatsink">>
                    /\ \A k \in 1..Len(path1) : path1[k] # <<"Power">>
                 THEN << <<"Power">>, <<"VRM", Space, "Configuration">> >>
                 ELSE path1
        leaf3 == IF leaf2 = <<"VRM", Space, "Heatsink">> THEN MOSHS ELSE leaf2
    IN  [path |-> path2, name |-> leaf3]

\* header_matrix of the parser: the cleaned values, without origins
ParserVal(ws, r, c) == CleanCell(MergedValue(ws, r, c))

\* clean_parents of the column: filtered, and without a last entry that
\* equals the leaf
ParserParents(ws, c) ==
    LET leaf_val == ParserVal(ws, Rows(ws), c)
        filtered == FilterParents([r \in 1..(Rows(ws) - 1) |-> ParserVal(ws, r, c)], <<>>)
    IN  IF filtered # <<>> /\ Last(filtered) = leaf_val THEN Front(filtered) ELSE filtered

\* the parents and the leaf of the column before the renaming rules;
\* empty says that the column is skipped as an empty column
ParserStack(ws, c) ==
    LET leaf_val == ParserVal(ws, Rows(ws), c)
        clean_parents == ParserParents(ws, c)
    IN  IF leaf_val = <<>> /\ clean_parents = <<>>
        THEN [empty |-> TRUE, path |-> <<>>, name |-> <<>>]
        ELSE IF leaf_val = <<>>
        THEN [empty |-> FALSE, path |-> Front(clean_parents), name |-> Last(clean_parents)]
        ELSE [empty |-> FALSE, path |-> clean_parents, name |-> leaf_val]

ParserColInfo(ws, c) ==
    LET named == ParserRenamed(ParserStack(ws, c).path, ParserStack(ws, c).name)
    IN  [key |-> NormalizeHeaderKey(named.path, named.name),
         name |-> named.name, path |-> named.path, col_idx |-> c - 1]

ParseEmpty ==
    /\ pc = "headers"
    /\ impl = "parse_multi_level_headers"
    /\ col_idx <= Cols(sheet)
    /\ ParserStack(sheet, col_idx).empty
    /\ col_idx' = col_idx + 1
    /\ UNCHANGED <<lvars, fvars, pc, impl, columns_info, sheet, seen_signatures, seen_key_counts,
                   last_valid_col_info, seen_keys, base_keys, uvars, tvars>>

ParseDuplicate ==
    /\ pc = "headers"
    /\ impl = "parse_multi_level_headers"
    /\ col_idx <= Cols(sheet)
    /\ ~ParserStack(sheet, col_idx).empty
    /\ ParserColInfo(sheet, col_idx).key \in seen_keys
    /\ base_keys' = Append(base_keys, ParserColInfo(sheet, col_idx).key)
    /\ col_idx' = col_idx + 1
    /\ UNCHANGED <<lvars, fvars, pc, impl, columns_info, sheet, seen_signatures, seen_key_counts,
                   last_valid_col_info, seen_keys, uvars, tvars>>

ParseEmit ==
    /\ pc = "headers"
    /\ impl = "parse_multi_level_headers"
    /\ col_idx <= Cols(sheet)
    /\ ~ParserStack(sheet, col_idx).empty
    /\ ParserColInfo(sheet, col_idx).key \notin seen_keys
    /\ seen_keys' = seen_keys \cup { ParserColInfo(sheet, col_idx).key }
    /\ columns_info' = Append(columns_info, ParserColInfo(sheet, col_idx))
    /\ base_keys' = Append(base_keys, ParserColInfo(sheet, col_idx).key)
    /\ col_idx' = col_idx + 1
    /\ UNCHANGED <<lvars, fvars, pc, impl, sheet, seen_signatures, seen_key_counts,
                   last_valid_col_info, uvars, tvars>>

----------------------------------------------------------------------------
(* Header blocks handed to the header reconstructors *)

GridRows == 2
GridCols == 3
MaxMerges == 1

LeafTexts == { NoneValue, <<"Codec">>, <<"Codec", "_", "2">> }
ParentTexts == { NoneValue, <<"Audio">> }

Ranges ==
    { mr \in [min_row : 1..GridRows, max_row : 1..GridRows,
              min_col : 1..GridCols, max_col : 1..GridCols] :
        /\ mr.min_row <= mr.max_row /\ mr.min_col <= mr.max_col
        /\ (mr.min_row < mr.max_row \/ mr.min_col < mr.max_col) }

Overlap(a, b) ==
    /\ a.min_row <= b.max_row /\ b.min_row <= a.max_row
    /\ a.min_col <= b.max_col /\ b.min_col <= a.max_col

\* a cell covered by a merge range, other than its top-left cell, has no value
MergedCell(ws, r, c) ==
    \E k \in 1..Len(ws.merges) :
        /\ Covers(ws.merges[k], r, c)
        /\ <<r, c>> # <<ws.merges[k].min_row, ws.merges[k].min_col>>

Grids ==
    { Append(parents, leaf) :
        parents \in [1..(GridRows - 1) -> [1..GridCols -> ParentTexts]],
        leaf \in [1..GridCols -> LeafTexts] }

MergeLists ==
    { ms \in SeqsUpTo(Ranges, MaxMerges) :
        \A j, k \in 1..Len(ms) : j < k => ~Overlap(ms[j], ms[k]) }

Sheets ==
    { ws \in [cells : Grids, merges : MergeLists] :
        \A r \in 1..GridRows, c \in 1..GridCols :
            MergedCell(ws, r, c) => ws.cells[r][c] = NoneValue }

InitHeaders ==
    /\ pc = "headers"
    /\ impl \in { "process_headers", "parse_multi_level_headers" }
    /\ sheet \in Sheets
    /\ col_idx = 1
    /\ columns_info = <<>>
    /\ seen_signatures = {}
    /\ seen_key_counts = NoCounts
    /\ last_valid_col_info = <<>>
    /\ seen_keys = {}
    /\ base_keys = <<>>
    /\ IdleUnflatten
    /\ IdleTree
    /\ IdleBook
    /\ IdleCall

NextHeaders ==
    \/ ProcessHeadersSeen \/ ProcessHeadersAux \/ ProcessHeadersEmit
    \/ ParseEmpty \/ ParseDuplicate \/ ParseEmit
    \/ HeadersReturn

SpecHeaders == InitHeaders /\ [][NextHeaders]_vars

----------------------------------------------------------------------------
(* Properties of the header reconstructors *)

\* C1: the descriptors emitted so far by one pass of a header reconstructor
\* (process_headers, parse_multi_level_headers) have pairwise distinct keys.
C1_KeysPairwiseDistinct == DistinctColKeys(columns_info)

\* how many of the first i columns that reached key generation have the base
\* key of the i-th
NthOfBaseKey(i) == Cardinality({ j \in 1..i : base_keys[j] = base_keys[i] })

\* C2: on a sheet with no merge range (every column has a signature of its
\* own) no column that reached key generation is dropped; the first column
\* of a base key has that key and the n-th has <base>_n, counted per base key.
C2_CollidingColumnsSuffixed ==
    sheet.merges = <<>> =>
        /\ Len(columns_info) = Len(base_keys)
        /\ \A i \in 1..Len(columns_info) :
              columns_info[i].key =
                  IF NthOfBaseKey(i) = 1 THEN base_keys[i]
                  ELSE Suffixed(base_keys[i], NthOfBaseKey(i))

\* the origins of the column's header stack, top to bottom
StackOrigins(ws, c) == [r \in 1..Rows(ws) |-> CellOrigin(ws, r, c)]

\* C10: no two emitted descriptors come from columns whose header stacks have
\* the same cell origins, so a merged block that spans several columns with
\* identical stacks gives one descriptor.
C10_OneDescriptorPerSignature ==
    \A i, j \in 1..Len(columns_info) :
        i # j => StackOrigins(sheet, columns_info[i].col_idx + 1)
                    # StackOrigins(sheet, columns_info[j].col_idx + 1)

----------------------------------------------------------------------------
(* load_data (excel_loader.py): the header tree, then a data row *)

LoadNames == { <<"Model">>, <<"Codec">>, LaneNote, <<"bifurcation">> }

LoadPaths == { <<>>, << <<"Motherboard">> >>, << <<"Lane-sharing">> >>, << <<"Codec">> >> }

LoadHeaders == [path : LoadPaths, name : LoadNames]

RowValues == { NoneValue, <<"x">>, <<Space, "y">> }

\* record[key] = value; a key the record has keeps its place
DictSet(rec, key, value) ==
    IF \E i \in 1..Len(rec) : rec[i][1] = key
    THEN [i \in 1..Len(rec) |-> IF rec[i][1] = key THEN <<key, value>> ELSE rec[i]]
    ELSE Append(rec, <<key, value>>)

\* "Read each column's value": the record of one row, cell values vals
RECURSIVE RowRecord(_, _)
RowRecord(cols, vals) ==
    IF cols = <<>> THEN <<>>
    ELSE DictSet(RowRecord(Front(cols), Front(vals)), Last(cols).key, Last(vals))

\* "Only add record if it has a Model"
HasModel(cols, vals) ==
    \E i \in 1..Len(cols) :
        /\ cols[i].key = <<"Model">>
        /\ vals[i] # NoneValue /\ vals[i] # <<>> /\ Strip(vals[i]) # <<>>

\* clean_record_values, for cells that hold text or nothing
CleanRecordValues(rec) ==
    [i \in 1..Len(rec) |->
        <<rec[i][1],
          IF rec[i][2] = NoneValue THEN <<>> ELSE ReplaceNewlines(Strip(rec[i][2]))>>]

\* steps 5 and 6 for one row: the record is read, cleaned and handed to
\* unflatten_record
LoadRow ==
    /\ pc = "rows"
    /\ \E vals \in [1..Len(columns_info) -> RowValues] :
          /\ HasModel(columns_info, vals)
          /\ record' = CleanRecordValues(RowRecord(columns_info, vals))
    /\ upos' = 1
    /\ nested' = EmptyDoc
    /\ pc' = "unflatten"
    /\ UNCHANGED <<lvars, fvars, srcDoc, impl, columns_info, tvars, hvars>>

InitLoad ==
    /\ pc = "build"
    /\ impl = "load_data"
    /\ \E hs \in SeqsUpTo(LoadHeaders, MaxCols) :
          columns_info = ParsedCols(hs) /\ DistinctColKeys(columns_info)
    /\ tpos = 1
    /\ tree = <<>>
    /\ results = <<>>
    /\ IdleUnflatten
    /\ IdleHeaders
    /\ IdleBook
    /\ IdleCall

NextLoad ==
    \/ BuildStep \/ BuildRaise \/ BuildReturn
    \/ LoadRow \/ UnflattenStep \/ UnflattenReturn

SpecLoad == InitLoad /\ [][NextLoad]_vars

----------------------------------------------------------------------------
(* Properties of the tree and the documents of one load *)

\* the leaves of a header tree: <<path of names from the root, key>>
RECURSIVE LeafPlaces(_, _)
LeafPlaces(level, prefix) ==
    UNION { (IF level[i].hasKey
             THEN { <<Append(prefix, level[i].name), level[i].key>> } ELSE {})
            \cup (IF level[i].hasChildren
                  THEN LeafPlaces(level[i].children, Append(prefix, level[i].name))
                  ELSE {}) : i \in 1..Len(level) }

\* where the tree has the leaf of a key of the record, the document has an
\* entry, and it is where unflatten_record writes the key
LinedUp ==
    (pc = "done" /\ impl = "load_data" /\ record # <<>>) =>
        \A i \in 1..Len(record) : \A place \in LeafPlaces(tree, <<>>) :
            place[2] = record[i][1] =>
                /\ place[1] = WrittenPath(i)
                /\ place[1] \in DOMAIN nested

\* build_header_tree renames a descriptor to Notes / Details exactly when
\* the override of process_headers renames the column
AliasAgrees ==
    (pc = "build" /\ impl = "load_data" /\ tpos <= Len(columns_info)) =>
        ((columns_info'[tpos] # columns_info[tpos])
            <=> OverrideAliases(columns_info[tpos].name))

\* C9: after load_data has built the tree and unflattened a row, every
\* column's leaf is in the tree at the path at which the document holds the
\* column's value, and build_header_tree applies the alias to Notes|Details
\* to the columns the reconstructor's override applies it to.
C9_TreeAndDocumentLineUp == []LinedUp /\ [][AliasAgrees]_vars

----------------------------------------------------------------------------
(* Header blocks without merge ranges, given column by column *)

MaxStackCols == 3

BIOSFlash == <<"BIOS", Space, "Flash">>
BIOSFlashHeader == <<"BIOS", Space, "Flash", Space, "header">>

\* the cells of one column, top to bottom; the last is the leaf row's
ColumnStacks ==
    { <<NoneValue, <<"Audio">>, <<"Codec">> >>,
      <<NoneValue, <<"Audio">>, NoneValue>>,
      <<NoneValue, NoneValue, NoneValue>>,
      <<NoneValue, NoneValue, <<"Codec">> >>,
      <<<<"Audio">>, <<"Audio">>, <<"Codec">> >>,
      <<NoneValue, BIOSFlashHeader, BIOSFlash>>,
      <<BIOSFlashHeader, BIOSFlash, BIOSFlash>>,
      <<NoneValue, <<"Audio">>, <<"Audio", Space, "Codec">> >>,
      <<NoneValue, <<"Codec">>, <<"codec">> >>,
      <<NoneValue, <<"USB">>, <<"USB">> >>,
      << <<"Use", Space, "the", Space, "tabs">>, <<"Audio">>, <<"Codec">> >> }

\* the worksheet whose columns are the stacks
SheetOfStacks(stacks) ==
    [cells |-> [r \in 1..Len(stacks[1]) |-> [c \in 1..Len(stacks) |-> stacks[c][r]]],
     merges |-> <<>>]

InitStacks ==
    /\ pc = "headers"
    /\ impl \in { "process_headers", "parse_multi_level_headers" }
    /\ \E stacks \in [1..MaxStackCols -> ColumnStacks] : sheet = SheetOfStacks(stacks)
    /\ col_idx = 1
    /\ columns_info = <<>>
    /\ seen_signatures = {}
    /\ seen_key_counts = NoCounts
    /\ last_valid_col_info = <<>>
    /\ seen_keys = {}
    /\ base_keys = <<>>
    /\ IdleUnflatten
    /\ IdleTree
    /\ IdleBook
    /\ IdleCall

\* without merge ranges no signature is seen twice
NextStacks ==
    \/ ProcessHeadersAux \/ ProcessHeadersEmit
    \/ ParseEmpty \/ ParseDuplicate \/ ParseEmit
    \/ HeadersReturn

SpecStacks == InitStacks /\ [][NextStacks]_vars

----------------------------------------------------------------------------
(* Properties of the columns the header reconstructors keep *)

\* the descriptors of the columns to the left of column c
RetainedBefore(c) == SelectSeq(columns_info, LAMBDA d : d.col_idx < c - 1)

\* column c has an empty leaf and the parent path of the previous retained
\* column
AuxCase(c) ==
    /\ RetainedBefore(c) # <<>>
    /\ LegacyLeafVal(sheet, c) = <<>>
    /\ LegacyParents(sheet, c) = Last(RetainedBefore(c)).path

\* C11: in process_headers a processed column with an empty leaf whose parent
\* path is the path of the previous retained column has no descriptor, and
\* the previous retained column is always the last descriptor emitted, never
\* a suppressed column.
C11_AuxiliarySuppressed ==
    impl = "process_headers" =>
        /\ \A c \in 1..(col_idx - 1) :
              AuxCase(c) => \A i \in 1..Len(columns_info) : columns_info[i].col_idx # c - 1
        /\ last_valid_col_info =
              IF columns_info = <<>> THEN <<>> ELSE <<Last(columns_info)>>

\* two auxiliary columns in a row were suppressed
C11_Witness ==
    /\ impl = "process_headers"
    /\ pc = "done"
    /\ \E c \in 2..(Cols(sheet) - 1) :
          AuxCase(c) /\ AuxCase(c + 1) /\ LegacyParents(sheet, c) # <<>>
    /\ Len(columns_info) < Cols(sheet)

\* the leaf candidate and the parent path the reconstructor works out for
\* column c
StackLeaf(c) ==
    IF impl = "process_headers" THEN LegacyLeafVal(sheet, c)
    ELSE ParserVal(sheet, Rows(sheet), c)

StackParents(c) ==
    IF impl = "process_headers" THEN LegacyParents(sheet, c) ELSE ParserParents(sheet, c)

\* the column has an empty leaf and the path of the previous retained column
SuppressedCase(c) ==
    /\ RetainedBefore(c) # <<>>
    /\ StackLeaf(c) = <<>>
    /\ StackParents(c) = Last(RetainedBefore(c)).path

\* C12: a processed column with an empty leaf candidate that is not an
\* auxiliary column has a descriptor; with a parent path its name is the
\* last path element and its path the rest, without one its name is
\* Unnamed_<columnIndex>.
C12_EmptyLeafHandled ==
    \A c \in 1..(col_idx - 1) :
        (StackLeaf(c) = <<>> /\ ~SuppressedCase(c)) =>
            \E i \in 1..Len(columns_info) :
                /\ columns_info[i].col_idx = c - 1
                /\ IF StackParents(c) # <<>>
                   THEN /\ columns_info[i].name = Last(StackParents(c))
                        /\ columns_info[i].path = Front(StackParents(c))
                   ELSE /\ columns_info[i].name = <<"Unnamed", "_", ToString(c - 1)>>
                        /\ columns_info[i].path = <<>>

\* the parent path before wrapper flattening: the non-empty values above the
\* leaf, without consecutive duplicates
StackDeduped(c) ==
    IF impl = "process_headers"
    THEN DedupeConsecutive(SelectSeq(
             [k \in 1..Len(HierarchyRows(sheet)) |-> HierarchyRows(sheet)[k][c].val],
             NonEmpty))
    ELSE FilterParents([r \in 1..(Rows(sheet) - 1) |-> ParserVal(sheet, r, c)], <<>>)

\* the last entry equals the leaf candidate or is contained in it, without
\* regard to case, both longer than 4 characters
WrapperMatches(last_p, leaf_val) ==
    /\ StrLen(last_p) > 4 /\ StrLen(leaf_val) > 4
    /\ \/ Lower(last_p) = Lower(leaf_val)
       \/ Contains(Lower(leaf_val), Lower(last_p))

\* C13: the parent path of a processed column is the deduplicated path
\* without its last entry when that entry equals the leaf candidate or is
\* contained in it (case-insensitive, strings longer than 4 characters), and
\* the deduplicated path as it is otherwise.
C13_WrapperFlattened ==
    \A c \in 1..(col_idx - 1) :
        StackParents(c) =
            IF /\ StackDeduped(c) # <<>>
               /\ WrapperMatches(Last(StackDeduped(c)), StackLeaf(c))
            THEN Front(StackDeduped(c))
            ELSE StackDeduped(c)

----------------------------------------------------------------------------
(* The anchor row: find_leaf_header_row and the anchor search of the legacy
   load_data *)

MaxScanRows == 25       \* find_leaf_header_row: max_scan_rows
MaxColumns == 250       \* find_leaf_header_row: max_columns
LegacyScanRows == 20    \* data_loader.load_data: range(1, 21)
LegacyMaxCol == 200     \* data_loader.load_data: min(ws.max_column, 200)

Min(a, b) == IF a < b THEN a ELSE b

\* a worksheet given by its rows that hold text: a set of [row, cells], cells
\* a set of [col, val]; every other cell is empty.  worksheet.max_column
MaxColumn(ws) ==
    IF ws = {} THEN 1
    ELSE CHOOSE m \in { x.col : x \in UNION { rw.cells : rw \in ws } } :
            \A x \in UNION { rw.cells : rw \in ws } : x.col <= m

\* row_vals as a set: str(val).strip() of the cells of the row up to max_col
RowVals(ws, row_num, max_col) ==
    { Strip(x.val) : x \in { y \in UNION { rw.cells : rw \in { q \in ws : q.row = row_num } } :
                                y.col <= max_col } }

HasBrandAndModel(row_vals) == <<"Brand">> \in row_vals /\ <<"Model">> \in row_vals

HasMakeAndBoardName(row_vals) ==
    <<"Make">> \in row_vals /\ <<"Board", Space, "Name">> \in row_vals

\* header_parser.find_leaf_header_row: the loop from row_num on
RECURSIVE FindLeafFrom(_, _)
FindLeafFrom(ws, row_num) ==
    IF row_num > MaxScanRows THEN -1
    ELSE IF HasBrandAndModel(RowVals(ws, row_num, MaxColumns)) THEN row_num
    ELSE FindLeafFrom(ws, row_num + 1)

FindLeafHeaderRow(ws) == FindLeafFrom(ws, 1)

\* data_loader.load_data, "1. Anchor Row": the 0-based index of the first row
\* of data_rows that has Brand and Model
RECURSIVE LegacyBrandFrom(_, _)
LegacyBrandFrom(ws, i) ==
    IF i >= LegacyScanRows THEN -1
    ELSE IF HasBrandAndModel(RowVals(ws, i + 1, Min(MaxColumn(ws), LegacyMaxCol))) THEN i
    ELSE LegacyBrandFrom(ws, i + 1)

\* the second loop, for Make and Board Name
RECURSIVE LegacyMakeFrom(_, _)
LegacyMakeFrom(ws, i) ==
    IF i >= LegacyScanRows THEN -1
    ELSE IF HasMakeAndBoardName(RowVals(ws, i + 1, Min(MaxColumn(ws), LegacyMaxCol))) THEN i
    ELSE LegacyMakeFrom(ws, i + 1)

\* anchor_row_idx; -1 makes load_data skip the sheet
LegacyAnchorRowIdx(ws) ==
    IF LegacyBrandFrom(ws, 0) # -1 THEN LegacyBrandFrom(ws, 0) ELSE LegacyMakeFrom(ws, 0)

FindLeafHeaderRowCall ==
    /\ pc = "call"
    /\ impl = "find_leaf_header_row"
    /\ ret' = <<FindLeafHeaderRow(args[1])>>
    /\ pc' = "done"
    /\ UNCHANGED <<impl, columns_info, args, uvars, tvars, hvars, lvars>>

LegacyAnchorRowCall ==
    /\ pc = "call"
    /\ impl = "load_data (data_loader)"
    /\ ret' = <<LegacyAnchorRowIdx(args[1])>>
    /\ pc' = "done"
    /\ UNCHANGED <<impl, columns_info, args, uvars, tvars, hvars, lvars>>

MaxMarkedRows == 2

AnchorRows == { 1, 2, 20, 21, 25, 26 }

AnchorCells ==
    { { [col |-> 1, val |-> <<"Brand">>], [col |-> 2, val |-> <<"Model">>] },
      { [col |-> 1, val |-> <<Space, "Brand", Space>>], [col |-> 3, val |-> <<"Model">>] },
      { [col |-> 1, val |-> <<"Brand">>] },
      { [col |-> 1, val |-> <<"Make">>], [col |-> 2, val |-> <<"Board", Space, "Name">>] },
      { [col |-> 1, val |-> <<"Brand">>], [col |-> 201, val |-> <<"Model">>] },
      { [col |-> 1, val |-> <<"Brand">>], [col |-> 251, val |-> <<"Model">>] } }

AnchorSheets ==
    { ws \in SeqsToSets([row : AnchorRows, cells : AnchorCells], MaxMarkedRows) :
        \A a, b \in ws : a.row = b.row => a = b }

InitAnchor ==
    /\ pc = "call"
    /\ impl \in { "find_leaf_header_row", "load_data (data_loader)" }
    /\ args \in { <<ws>> : ws \in AnchorSheets }
    /\ ret = <<>>
    /\ columns_info = <<>>
    /\ IdleUnflatten
    /\ IdleTree
    /\ IdleHeaders
    /\ IdleBook

NextAnchor == FindLeafHeaderRowCall \/ LegacyAnchorRowCall

SpecAnchor == InitAnchor /\ [][NextAnchor]_vars

\* the row is in the scan window and has a Brand cell and a Model cell
\* within the window's columns
AnchorAt(ws, row_num) ==
    /\ row_num \in 1..MaxScanRows
    /\ HasBrandAndModel(RowVals(ws, row_num, MaxColumns))

\* the row found, 1-based, or -1
FoundRow ==
    IF impl = "find_leaf_header_row" \/ ret[1] = -1 THEN ret[1] ELSE ret[1] + 1

\* C14: the row found is the first row of the scan window (25 rows) with a
\* Brand cell and a Model cell, and the result is "not found" exactly when
\* the window has no such row.
C14_FirstAnchorRow ==
    pc = "done" =>
        /\ FoundRow # -1 =>
              /\ AnchorAt(args[1], FoundRow)
              /\ \A q \in 1..(FoundRow - 1) : ~AnchorAt(args[1], q)
        /\ FoundRow = -1 <=> \A q \in 1..MaxScanRows : ~AnchorAt(args[1], q)

----------------------------------------------------------------------------
(* Record ids *)

Slash == "/"
Backslash == "\\"
Underscore == "_"
Dash == "-"

\* s.replace(old, new) for one-character old and new
ReplaceAtom(s, old, new) == [i \in 1..Len(s) |-> IF s[i] = old THEN new ELSE s[i]]

\* while '__' in safe_model: safe_model = safe_model.replace('__', '_')
RECURSIVE CollapseUnderscores(_)
CollapseUnderscores(s) ==
    IF Len(s) < 2 THEN s
    ELSE IF s[1] = Underscore /\ s[2] = Underscore THEN CollapseUnderscores(Tail(s))
    ELSE <<Head(s)>> \o CollapseUnderscores(Tail(s))

\* excel_loader.load_data: model is the cleaned Model value;
\* model.replace(' ', '_').replace('/', '-').replace('\\', '-')
SafeModel(value) ==
    LET model == ReplaceNewlines(Strip(value))
    IN  ReplaceAtom(ReplaceAtom(ReplaceAtom(model, Space, Underscore), Slash, Dash),
                    Backslash, Dash)

\* data_loader.load_data: raw_model.replace('\n', ' ').strip().replace(' ', '_')
\* .replace('/', '-').replace('\\', '-'), then the collapse
LegacySafeModel(raw_model) ==
    CollapseUnderscores(
        ReplaceAtom(ReplaceAtom(ReplaceAtom(Strip(ReplaceNewlines(raw_model)),
                                            Space, Underscore), Slash, Dash),
                    Backslash, Dash))

SafeModelOf(which, value) ==
    IF which = "load_data" THEN SafeModel(value) ELSE LegacySafeModel(value)

\* f"{sheet_name}_{idx}_{safe_model}"
UniqueId(sheet_name, idx, safe_model) ==
    sheet_name \o <<Underscore, ToString(idx), Underscore>> \o safe_model

\* one row's Model cell goes through the id generation of either loader
SafeModelCall ==
    /\ pc = "call"
    /\ impl \in { "load_data", "load_data (data_loader)" }
    /\ ret' = <<SafeModelOf(impl, args[1])>>
    /\ pc' = "done"
    /\ UNCHANGED <<impl, columns_info, args, uvars, tvars, hvars, lvars>>

MaxModelLen == 3

ModelAtoms == { "X", Space, Tab, Newline, Slash, Backslash, Underscore }

\* the Model cells of rows that are kept: text that is not blank
ModelCells == { m \in SeqsUpTo(ModelAtoms, MaxModelLen) : Strip(m) # <<>> }

InitSafeModel ==
    /\ pc = "call"
    /\ impl \in { "load_data", "load_data (data_loader)" }
    /\ args \in { <<m>> : m \in ModelCells }
    /\ ret = <<>>
    /\ columns_info = <<>>
    /\ IdleUnflatten
    /\ IdleTree
    /\ IdleHeaders
    /\ IdleBook

NextSafeModel == SafeModelCall

SpecSafeModel == InitSafeModel /\ [][NextSafeModel]_vars

\* C17: the model part of a record id has no whitespace, no "/", no "\" and
\* no two "_" in a row, whatever the Model cell holds.
C17_ModelPartSanitized ==
    pc = "done" =>
        /\ \A i \in 1..Len(ret[1]) : ret[1][i] \notin Whitespace \cup { Slash, Backslash }
        /\ ~Contains(ret[1], <<Underscore, Underscore>>)

----------------------------------------------------------------------------
(* load_data: the sheets of the workbook *)

\* a float cell that is not finite; int(value) raises OverflowError
Infinity == <<"<inf>">>

\* build_header_tree(valid_cols)
RECURSIVE BuildHeaderTree(_, _)
BuildHeaderTree(level, cols) ==
    IF cols = <<>> THEN Returned(level)
    ELSE IF WalkRaises(level, FullPath(AliasCol(Head(cols)))) THEN Raised
    ELSE BuildHeaderTree(BuildCol(level, Head(cols)), Tail(cols))

\* data_loader.load_data, "2. Capture Structure": add_to_tree for every column
RECURSIVE CaptureStructure(_, _)
CaptureStructure(level, cols) ==
    IF cols = <<>> THEN level
    ELSE CaptureStructure(AddToTree(level, Head(cols).path, Head(cols).key, Head(cols).name),
                          Tail(cols))

\* leaf_row of excel_loader.load_data, anchor_row_idx of data_loader.load_data
AnchorOf(which, ws) ==
    IF which = "load_data" THEN FindLeafHeaderRow(ws) ELSE LegacyAnchorRowIdx(ws)

\* mutation: a sheet without an anchor row is read like any other
HeaderMissingNever(anchor) == FALSE

\* `if leaf_row == -1` / `if anchor_row_idx == -1`
HeaderMissing(anchor) == anchor = -1

\* clean_record_values raises on a row of the sheet
RowRaises(rows) == \E i \in 1..Len(rows) : rows[i].value = Infinity

\* "Step 6": the records of one sheet, id by id
SheetRecords(which, s) ==
    [i \in 1..Len(s.rows) |->
        [id |-> UniqueId(s.name, i - 1, SafeModelOf(which, s.rows[i].model)),
         sheet |-> s.name]]

\* the loader between two sheets
LoaderState(mobos, built, t) ==
    [raised |-> FALSE, all_mobos |-> mobos, structure_built |-> built, tree |-> t]

\* an exception was raised: `return [], []`
LoaderRaised == [raised |-> TRUE, all_mobos |-> <<>>, structure_built |-> FALSE, tree |-> <<>>]

\* excel_loader.load_data: one iteration of `for sheet_name in SHEETS_TO_LOAD`
SheetStep(s, st) ==
    IF ~s.present \/ HeaderMissing(AnchorOf("load_data", s.ws)) THEN st
    ELSE LET built == IF st.structure_built THEN Returned(st.tree)
                      ELSE BuildHeaderTree(<<>>, s.cols)
         IN  IF built.raised \/ RowRaises(s.rows) THEN LoaderRaised
             ELSE LoaderState(st.all_mobos \o SheetRecords("load_data", s), TRUE, built.tree)

\* data_loader.load_data: one iteration of `for sheet_name in SHEETS_TO_LOAD`
LegacySheetStep(s, st) ==
    IF ~s.present \/ HeaderMissing(AnchorOf("load_data (data_loader)", s.ws)) THEN st
    ELSE LoaderState(st.all_mobos \o SheetRecords("load_data (data_loader)", s),
                     st.structure_built,
                     IF st.tree = <<>> /\ AnchorOf("load_data (data_loader)", s.ws) > 0
                     THEN CaptureStructure(<<>>, s.cols) ELSE st.tree)

StepOf(which, s, st) ==
    IF which = "load_data" THEN SheetStep(s, st) ELSE LegacySheetStep(s, st)

\* the sheet loop from one state on
RECURSIVE LoadFrom(_, _, _)
LoadFrom(which, sheets, st) ==
    IF sheets = <<>> \/ st.raised THEN st
    ELSE LoadFrom(which, Tail(sheets), StepOf(which, Head(sheets), st))

\* what load_data returns for a list of sheets
LoadData(which, sheets) ==
    LET st == LoadFrom(which, sheets, LoaderState(<<>>, FALSE, <<>>))
    IN  <<st.all_mobos, st.tree>>

CurrentState == LoaderState(all_mobos, structure_built, tree)

\* `if sheet_name not in wb.sheetnames: continue`
SheetNotFound ==
    /\ pc = "sheets"
    /\ sheet_pos <= Len(book)
    /\ ~book[sheet_pos].present
    /\ sheet_pos' = sheet_pos + 1
    /\ UNCHANGED <<pc, impl, columns_info, book, all_mobos, structure_built, fvars,
                   uvars, tvars, hvars>>

\* no anchor row: the sheet is skipped
SheetSkipped ==
    /\ pc = "sheets"
    /\ sheet_pos <= Len(book)
    /\ book[sheet_pos].present
    /\ HeaderMissing(AnchorOf(impl, book[sheet_pos].ws))
    /\ sheet_pos' = sheet_pos + 1
    /\ UNCHANGED <<pc, impl, columns_info, book, all_mobos, structure_built, fvars,
                   uvars, tvars, hvars>>

\* steps 2 to 6 for one sheet
SheetLoaded ==
    /\ pc = "sheets"
    /\ sheet_pos <= Len(book)
    /\ book[sheet_pos].present
    /\ ~HeaderMissing(AnchorOf(impl, book[sheet_pos].ws))
    /\ LET st == StepOf(impl, book[sheet_pos], CurrentState)
       IN  /\ ~st.raised
           /\ all_mobos' = st.all_mobos
           /\ structure_built' = st.structure_built
           /\ tree' = st.tree
    /\ sheet_pos' = sheet_pos + 1
    /\ UNCHANGED <<pc, impl, columns_info, book, fvars, tpos, results, uvars, hvars>>

\* an exception anywhere in the loop: `except Exception`, `return [], []`
SheetRaises ==
    /\ pc = "sheets"
    /\ sheet_pos <= Len(book)
    /\ book[sheet_pos].present
    /\ ~HeaderMissing(AnchorOf(impl, book[sheet_pos].ws))
    /\ StepOf(impl, book[sheet_pos], CurrentState).raised
    /\ ret' = << <<>>, <<>> >>
    /\ pc' = "done"
    /\ UNCHANGED <<impl, columns_info, args, lvars, uvars, tvars, hvars>>

\* the end of the list
LoadReturn ==
    /\ pc = "sheets"
    /\ sheet_pos > Len(book)
    /\ ret' = <<all_mobos, tree>>
    /\ pc' = "done"
    /\ UNCHANGED <<impl, columns_info, args, lvars, uvars, tvars, hvars>>

MaxSheets == 2

SheetNames == { <<"A">>, <<"A", Underscore, "1">>, <<"B">> }

BrandAndModel == { [col |-> 1, val |-> <<"Brand">>], [col |-> 2, val |-> <<"Model">>] }

\* a sheet with the anchor in row 2 and one with no anchor row
BookSheets == { { [row |-> 2, cells |-> BrandAndModel] },
                { [row |-> 2, cells |-> { [col |-> 1, val |-> <<"Brand">>] }] } }

\* descriptor lists of a header block: Brand, Model and Audio|Codec; the same
\* with a column Audio before Audio|Codec, which build_header_tree cannot take
BookCols ==
    { ParsedCols(<< [path |-> <<>>, name |-> <<"Brand">>],
                    [path |-> <<>>, name |-> <<"Model">>],
                    [path |-> << <<"Audio">> >>, name |-> <<"Codec">>] >>),
      ParsedCols(<< [path |-> <<>>, name |-> <<"Brand">>],
                    [path |-> <<>>, name |-> <<"Model">>],
                    [path |-> <<>>, name |-> <<"Audio">>],
                    [path |-> << <<"Audio">> >>, name |-> <<"Codec">>] >>) }

\* data rows that have a Model: the Model cell and the Codec cell
PlainRow(model) == [model |-> model, value |-> <<"x">>]

\* the data rows of a sheet
BookRows ==
    { <<>>,
      << PlainRow(<<"X">>) >>,
      << PlainRow(<<"X">>), PlainRow(<<"0", Underscore, "X">>) >>,
      << [model |-> <<"X">>, value |-> Infinity] >> }

BookEntries ==
    [name : SheetNames, present : { FALSE }, ws : { {} }, cols : { <<>> }, rows : { <<>> }]
    \cup [name : SheetNames, present : { TRUE }, ws : BookSheets, cols : BookCols,
          rows : BookRows]

\* SHEETS_TO_LOAD, names distinct, with what the workbook holds for each
Books ==
    { b \in SeqsUpTo(BookEntries, MaxSheets) :
        \A i, j \in 1..Len(b) : i # j => b[i].name # b[j].name }

InitBook ==
    /\ pc = "sheets"
    /\ impl \in { "load_data", "load_data (data_loader)" }
    /\ book \in Books
    /\ sheet_pos = 1
    /\ all_mobos = <<>>
    /\ structure_built = FALSE
    /\ columns_info = <<>>
    /\ IdleUnflatten
    /\ IdleTree
    /\ IdleHeaders
    /\ IdleCall

NextBook == SheetNotFound \/ SheetSkipped \/ SheetLoaded \/ SheetRaises \/ LoadReturn

SpecBook == InitBook /\ [][NextBook]_vars

\* the sheet is in the workbook and has no anchor row
NoAnchor(s) == s.present /\ AnchorOf(impl, s.ws) = -1

\* C15: a sheet with no anchor row is skipped and the load goes on: the
\* records returned are those of the same list without the sheets that have
\* no anchor row.
C15_NoAnchorSheetSkipped ==
    pc = "done" =>
        ret[1] = LoadData(impl, SelectSeq(book, LAMBDA s : ~NoAnchor(s)))[1]

\* a sheet with rows and no anchor row, then a sheet that is loaded
C15_Witness ==
    /\ pc = "done"
    /\ Len(book) = 2
    /\ NoAnchor(book[1]) /\ book[1].rows # <<>>
    /\ ret[1] # <<>>
    /\ \A i \in 1..Len(ret[1]) : ret[1][i].sheet = book[2].name

\* the sheet, loaded alone, raises nothing
LoadsAlone(s) == ~LoadFrom(impl, <<s>>, LoaderState(<<>>, FALSE, <<>>)).raised

\* C16: an error in one sheet does not discard the others: the records of
\* every sheet that loads without error are in the list returned.
C16_FailureIsolatedPerSheet ==
    pc = "done" =>
        \A i \in 1..Len(book) :
            LoadsAlone(book[i]) /\ book[i].present /\ ~NoAnchor(book[i]) =>
                \A r \in 1..Len(book[i].rows) :
                    \E k \in 1..Len(ret[1]) : ret[1][k] = SheetRecords(impl, book[i])[r]

\* C18: no two records of one load have the same id.
C18_IdsUnique ==
    pc = "done" =>
        \A i, j \in 1..Len(ret[1]) : i # j => ret[1][i].id # ret[1][j].id

----------------------------------------------------------------------------
(* LAN controllers: normalize_lan_controller and calculate_lan_score.
   Text is a sequence of characters here. *)

Digits == { "0", "1", "2", "3", "4", "5", "6", "7", "8", "9" }
UpperSeq == <<"A", "B", "C", "D", "E", "F", "G", "H", "I", "J", "K", "L", "M", "N", "O", "P", "Q", "R", "S", "T", "U", "V", "W", "X", "Y", "Z">>
LowerSeq == <<"a", "b", "c", "d", "e", "f", "g", "h", "i", "j", "k", "l", "m", "n", "o", "p", "q", "r", "s", "t", "u", "v", "w", "x", "y", "z">>
UpperLetters == { UpperSeq[i] : i \in 1..Len(UpperSeq) }
LowerLetters == { LowerSeq[i] : i \in 1..Len(LowerSeq) }

\* c.upper()
Upper(c) ==
    IF c \in LowerLetters THEN UpperSeq[CHOOSE i \in 1..Len(LowerSeq) : LowerSeq[i] = c]
    ELSE c

\* int(c) of a digit
DigitVal(c) ==
    CASE c = "0" -> 0 [] c = "1" -> 1 [] c = "2" -> 2 [] c = "3" -> 3 [] c = "4" -> 4
      [] c = "5" -> 5 [] c = "6" -> 6 [] c = "7" -> 7 [] c = "8" -> 8 [] c = "9" -> 9

\* int(digits)
RECURSIVE IntOf(_)
IntOf(digits) ==
    IF digits = <<>> THEN 0 ELSE 10 * IntOf(Front(digits)) + DigitVal(Last(digits))

\* \w of the regular expressions
IsWordChar(c) == c \in UpperLetters \cup LowerLetters \cup Digits \cup { "_" }

\* the pattern at position i, re.IGNORECASE
MatchAt(s, i, pat) ==
    /\ i + Len(pat) - 1 <= Len(s)
    /\ \A j \in 1..Len(pat) : Upper(s[i + j - 1]) = Upper(pat[j])

\* \b before position i and after position i - 1, for a pattern of word characters
BoundaryBefore(s, i) == i = 1 \/ ~IsWordChar(s[i - 1])
BoundaryAfter(s, i) == i > Len(s) \/ ~IsWordChar(s[i])

\* the length of the longest run of characters of a class from position i on
RECURSIVE RunLen(_, _, _)
RunLen(s, i, class) ==
    IF i > Len(s) \/ s[i] \notin class THEN 0 ELSE 1 + RunLen(s, i + 1, class)

\* re.sub(r'\bpat\b', repl, text, flags=re.IGNORECASE) from position i on
RECURSIVE SubWord(_, _, _, _)
SubWord(s, i, pat, repl) ==
    IF i > Len(s) THEN <<>>
    ELSE IF MatchAt(s, i, pat) /\ BoundaryBefore(s, i) /\ BoundaryAfter(s, i + Len(pat))
    THEN repl \o SubWord(s, i + Len(pat), pat, repl)
    ELSE <<s[i]>> \o SubWord(s, i + 1, pat, repl)

\* re.sub(pat, repl, text, flags=re.IGNORECASE) for a literal pattern
RECURSIVE SubLiteral(_, _, _, _)
SubLiteral(s, i, pat, repl) ==
    IF i > Len(s) THEN <<>>
    ELSE IF MatchAt(s, i, pat) THEN repl \o SubLiteral(s, i + Len(pat), pat, repl)
    ELSE <<s[i]>> \o SubLiteral(s, i + 1, pat, repl)

RTL == <<"R", "T", "L">>

\* re.sub(r'RTL\s+(\d+)', r'RTL\1', text, flags=re.IGNORECASE)
RECURSIVE SubRtlSpace(_, _)
SubRtlSpace(s, i) ==
    IF i > Len(s) THEN <<>>
    ELSE LET ws == RunLen(s, i + 3, Whitespace)
             ds == RunLen(s, i + 3 + ws, Digits)
         IN  IF MatchAt(s, i, RTL) /\ ws >= 1 /\ ds >= 1
             THEN RTL \o SubSeq(s, i + 3 + ws, i + 2 + ws + ds)
                      \o SubRtlSpace(s, i + 3 + ws + ds)
             ELSE <<s[i]>> \o SubRtlSpace(s, i + 1)

\* re.sub(r'<family>[A-Z]*', '<family>', text, flags=re.IGNORECASE)
RECURSIVE SubFamily(_, _, _)
SubFamily(s, i, family) ==
    IF i > Len(s) THEN <<>>
    ELSE IF MatchAt(s, i, family)
    THEN family \o SubFamily(s, i + Len(family)
                                  + RunLen(s, i + Len(family), UpperLetters \cup LowerLetters),
                             family)
    ELSE <<s[i]>> \o SubFamily(s, i + 1, family)

\* "1. Pre-cleaning & Expansion"
PreClean(raw_text) ==
    LET t1 == SubWord(raw_text, 1, <<"R", "t", "l", "k">>, <<"R", "e", "a", "l", "t", "e", "k">>)
        t2 == SubWord(t1, 1, <<"R", "l", "t", "k">>, <<"R", "e", "a", "l", "t", "e", "k">>)
        t3 == SubLiteral(t2, 1, <<"E", "3", "1", "0", "0", "G">>, <<"E", "3", "1", "0", "0", "(", "G", ")">>)
        t4 == SubRtlSpace(t3, 1)
        t5 == SubFamily(t4, 1, <<"R", "T", "L", "8", "1", "1", "1">>)
    IN  SubFamily(t5, 1, <<"R", "T", "L", "8", "1", "2", "5">>)

\* the length of \s+and\s+ at position i, 0 when it does not match there
AndAt(s, i) ==
    LET ws == RunLen(s, i, Whitespace)
        after == RunLen(s, i + ws + 3, Whitespace)
    IN  IF /\ ws >= 1
           /\ i + ws + 2 <= Len(s)
           /\ SubSeq(s, i + ws, i + ws + 2) = <<"a", "n", "d">>
           /\ after >= 1
        THEN ws + 3 + after ELSE 0

\* re.split(r'[,&+/\n]|\s+and\s+', text) from position i on, cur the chunk begun
RECURSIVE SplitChunks(_, _, _)
SplitChunks(s, i, cur) ==
    IF i > Len(s) THEN <<cur>>
    ELSE IF s[i] \in { ",", "&", "+", "/", Newline } THEN <<cur>> \o SplitChunks(s, i + 1, <<>>)
    ELSE IF AndAt(s, i) > 0 THEN <<cur>> \o SplitChunks(s, i + AndAt(s, i), <<>>)
    ELSE SplitChunks(s, i + 1, Append(cur, s[i]))

\* r'\(?(\d+)x\)?|\b(\d+)x\b|x(\d+)' at position i: the length of the match (0:
\* none) and the digits of its group.  The second alternative never matches
\* where the first does not.
MultiAt(s, i) ==
    LET p == IF i <= Len(s) /\ s[i] = "(" THEN i + 1 ELSE i
        ds == RunLen(s, p, Digits)
        xs == RunLen(s, i + 1, Digits)
    IN  IF ds >= 1 /\ p + ds <= Len(s) /\ Upper(s[p + ds]) = "X"
        THEN [len |-> (p - i) + ds + 1
                      + (IF p + ds + 1 <= Len(s) /\ s[p + ds + 1] = ")" THEN 1 ELSE 0),
              digits |-> SubSeq(s, p, p + ds - 1)]
        ELSE IF i <= Len(s) /\ Upper(s[i]) = "X" /\ xs >= 1
        THEN [len |-> 1 + xs, digits |-> SubSeq(s, i + 1, i + xs)]
        ELSE [len |-> 0, digits |-> <<>>]

\* re.search: the first position of the chunk where the pattern matches, 0: none
MultiMatch(chunk) ==
    IF \E i \in 1..Len(chunk) : MultiAt(chunk, i).len > 0
    THEN CHOOSE i \in 1..Len(chunk) :
            MultiAt(chunk, i).len > 0 /\ \A j \in 1..(i - 1) : MultiAt(chunk, j).len = 0
    ELSE 0

\* count
MultiCount(chunk) ==
    IF MultiMatch(chunk) = 0 THEN 1 ELSE IntOf(MultiAt(chunk, MultiMatch(chunk)).digits)

\* re.sub(pattern, '', chunk) from position i on
RECURSIVE RemoveMulti(_, _)
RemoveMulti(s, i) ==
    IF i > Len(s) THEN <<>>
    ELSE IF MultiAt(s, i).len > 0 THEN RemoveMulti(s, i + MultiAt(s, i).len)
    ELSE <<s[i]>> \o RemoveMulti(s, i + 1)

\* re.sub(r'[^A-Z0-9]', '', text.upper())
CleanName(text) ==
    SelectSeq([i \in 1..Len(text) |-> Upper(text[i])],
              LAMBDA c : c \in UpperLetters \cup Digits)

\* clean_chunk of a stripped, non-empty chunk
CleanChunk(chunk) ==
    CleanName(IF MultiMatch(chunk) = 0 THEN chunk ELSE RemoveMulti(chunk, 1))

REALTEK == <<"R", "E", "A", "L", "T", "E", "K">>

\* `candidates`, in the order of valid_controllers
IsCandidate(vc, clean_chunk) ==
    \/ Contains(clean_chunk, CleanName(vc))
    \/ /\ Contains(CleanName(vc), clean_chunk)
       /\ Len(clean_chunk) > 4
       /\ ~(Contains(clean_chunk, REALTEK) /\ Len(clean_chunk) < 8)

\* `score` of a candidate
CandidateScore(cand, clean_chunk) ==
    IF CleanName(cand) = clean_chunk THEN 100
    ELSE IF Contains(clean_chunk, CleanName(cand)) THEN 50 + Len(CleanName(cand))
    ELSE IF Contains(CleanName(cand), clean_chunk)
    THEN IF \E i \in 1..Len(clean_chunk) : clean_chunk[i] \in Digits
         THEN 20 + Len(CleanName(cand)) ELSE 0
    ELSE 0

\* matches_with_score.sort(key=score, reverse=True)[0]: the first candidate of
\* the highest score (the sort is stable); <<>> when there is no candidate or
\* the highest score is 0
BestMatch(clean_chunk, valid_controllers) ==
    LET candidates == SelectSeq(valid_controllers, LAMBDA vc : IsCandidate(vc, clean_chunk))
        Score(i) == CandidateScore(candidates[i], clean_chunk)
    IN  IF candidates = <<>> THEN <<>>
        ELSE LET b == CHOOSE i \in 1..Len(candidates) :
                          /\ \A j \in 1..Len(candidates) : Score(j) <= Score(i)
                          /\ \A j \in 1..(i - 1) : Score(j) < Score(i)
             IN  IF Score(b) > 0 THEN <<candidates[b]>> ELSE <<>>

\* mutation: every candidate is counted, not the best one only
CountedAll(clean_chunk, valid_controllers) ==
    SelectSeq(valid_controllers, LAMBDA vc : IsCandidate(vc, clean_chunk))

\* the controllers a chunk is counted for, once
Counted(clean_chunk, valid_controllers) == BestMatch(clean_chunk, valid_controllers)

\* best appended count times
RECURSIVE Repeat(_, _)
Repeat(s, n) == IF n <= 0 THEN <<>> ELSE s \o Repeat(s, n - 1)

\* the chunks that are not blank, stripped
Chunks(raw_text) ==
    SelectSeq([i \in 1..Len(SplitChunks(PreClean(raw_text), 1, <<>>)) |->
                  Strip(SplitChunks(PreClean(raw_text), 1, <<>>)[i])],
              LAMBDA chunk : chunk # <<>>)

\* what one chunk adds to found_controllers
ChunkFound(chunk, valid_controllers) ==
    Repeat(Counted(CleanChunk(chunk), valid_controllers), MultiCount(chunk))

RECURSIVE FoundIn(_, _)
FoundIn(chunks, valid_controllers) ==
    IF chunks = <<>> THEN <<>>
    ELSE ChunkFound(Head(chunks), valid_controllers) \o FoundIn(Tail(chunks), valid_controllers)

\* normalize_lan_controller(raw_text, valid_controllers); no text is <<>>
NormalizeLanController(raw_text, valid_controllers) ==
    IF raw_text = <<>> THEN <<>> ELSE FoundIn(Chunks(raw_text), valid_controllers)

\* list(lan_lookup.keys())
LookupKeys(lan_lookup) == [i \in 1..Len(lan_lookup) |-> lan_lookup[i].name]

\* lan_lookup.get(c, 0)
LookupGet(lan_lookup, c) ==
    IF \E i \in 1..Len(lan_lookup) : lan_lookup[i].name = c
    THEN lan_lookup[CHOOSE i \in 1..Len(lan_lookup) : lan_lookup[i].name = c].speed
    ELSE 0

RECURSIVE TotalSpeed(_, _)
TotalSpeed(lan_lookup, controllers) ==
    IF controllers = <<>> THEN 0
    ELSE LookupGet(lan_lookup, Head(controllers)) + TotalSpeed(lan_lookup, Tail(controllers))

\* calculate_lan_score(lan_text, lan_lookup)
CalculateLanScore(lan_text, lan_lookup) ==
    IF lan_text = <<>> \/ lan_lookup = <<>> THEN 0
    ELSE TotalSpeed(lan_lookup, NormalizeLanController(lan_text, LookupKeys(lan_lookup)))

NormalizeLanControllerCall ==
    /\ pc = "call"
    /\ impl = "normalize_lan_controller"
    /\ ret' = <<NormalizeLanController(args[1], LookupKeys(args[2]))>>
    /\ pc' = "done"
    /\ UNCHANGED <<impl, columns_info, args, uvars, tvars, hvars, lvars>>

CalculateLanScoreCall ==
    /\ pc = "call"
    /\ impl = "calculate_lan_score"
    /\ ret' = <<CalculateLanScore(args[1], args[2])>>
    /\ pc' = "done"
    /\ UNCHANGED <<impl, columns_info, args, uvars, tvars, hvars, lvars>>

MaxLookup == 2

RealtekRTL8111H == <<"R", "e", "a", "l", "t", "e", "k", " ", "R", "T", "L", "8", "1", "1", "1", "H">>
IntelAndMarvell == <<"I", "n", "t", "e", "l", " ", "I", "2", "2", "6", "-", "V", ",", " ", "M", "a", "r", "v", "e", "l", "l", " ", "A", "Q", "C", "1", "1", "3", "C">>
IntelI226 == <<"I", "n", "t", "e", "l", " ", "I", "2", "2", "6">>

\* LAN cells; <<>> is an empty cell
LanTexts ==
    { <<>>,
      <<"R", "e", "a", "l", "t", "e", "k", " ", "R", "T", "L", "8", "1", "1", "1", "H">>,
      <<"I", "n", "t", "e", "l", " ", "I", "2", "2", "6", "-", "V", ",", " ", "M", "a", "r", "v", "e", "l", "l", " ", "A", "Q", "C", "1", "1", "3", "C">>,
      <<"I", "n", "t", "e", "l", " ", "I", "2", "2", "6", "-", "V">>,
      <<"R", "l", "t", "k", " ", "R", "T", "L", " ", "8", "1", "2", "5", "B", "G">>,
      <<"2", "x", " ", "I", "n", "t", "e", "l", " ", "I", "2", "2", "6", "-", "V">>,
      <<"I", "n", "t", "e", "l", " ", "I", "2", "2", "6", "-", "V", " ", "(", "2", "x", ")">>,
      <<"R", "e", "a", "l", "t", "e", "k">>,
      <<"I", "n", "t", "e", "l", " ", "I", "2", "2", "6", "-", "V", " ", "a", "n", "d", " ", "R", "e", "a", "l", "t", "e", "k", " ", "R", "T", "L", "8", "1", "2", "5", " ", "x", "2">>,
      <<"R", "T", "L", "8", "1", "2", "5">>,
      <<"I", "n", "t", "e", "l", " ", "I", "2", "2", "6">>,
      <<"K", "i", "l", "l", "e", "r", " ", "E", "3", "1", "0", "0", "G", " ", "+", " ", "I", "n", "t", "e", "l", " ", "I", "-", "2", "2", "6", "V">>,
      <<" ">> }

IntelI226V == [name |-> <<"I", "n", "t", "e", "l", " ", "I", "2", "2", "6", "-", "V">>, speed |-> 2500]
MarvellAQC113C == [name |-> <<"M", "a", "r", "v", "e", "l", "l", " ", "A", "Q", "C", "1", "1", "3", "C">>, speed |-> 10000]
RealtekRTL8125 == [name |-> <<"R", "e", "a", "l", "t", "e", "k", " ", "R", "T", "L", "8", "1", "2", "5">>, speed |-> 2500]
NarrowRTL8111 == [name |-> <<"R", "e", "a", "l", "t", "e", "k", " ", "R", "T", "L", "8", "1", "1", "1">>, speed |-> 1000]
SpecificRTL8111H == [name |-> <<"R", "e", "a", "l", "t", "e", "k", " ", "R", "T", "L", "8", "1", "1", "1", "H">>, speed |-> 1000]
IntelOnly == [name |-> <<"I", "n", "t", "e", "l">>, speed |-> 1000]
IntelLongName == [name |-> <<"I", "n", "t", "e", "l", " ", "I", "2", "2", "6", "-", "V", " ", "2", ".", "5", " ", "G", "i", "g", "a", "b", "i", "t", " ", "E", "t", "h", "e", "r", "n", "e", "t", " ", "N", "e", "t", "w", "o", "r", "k", " ", "C", "o", "n", "t", "r", "o", "l", "l", "e", "r">>, speed |-> 2500]

LookupEntries ==
    { IntelI226V, MarvellAQC113C, RealtekRTL8125, NarrowRTL8111, SpecificRTL8111H,
      IntelOnly, IntelLongName }

\* lan_lookup: a dict, in insertion order
Lookups ==
    { l \in SeqsUpTo(LookupEntries, MaxLookup) :
        \A i, j \in 1..Len(l) : i # j => l[i].name # l[j].name }

InitLan ==
    /\ pc = "call"
    /\ impl \in { "normalize_lan_controller", "calculate_lan_score" }
    /\ args \in { <<t, l>> : t \in LanTexts, l \in Lookups }
    /\ ret = <<>>
    /\ columns_info = <<>>
    /\ IdleUnflatten
    /\ IdleTree
    /\ IdleHeaders
    /\ IdleBook

NextLan == NormalizeLanControllerCall \/ CalculateLanScoreCall

SpecLan == InitLan /\ [][NextLan]_vars

HasEntry(lan_lookup, e) == \E i \in 1..Len(lan_lookup) : lan_lookup[i] = e

\* the canonical name is matched in the chunk: one contains the other
MatchedIn(name, chunk) ==
    \/ Contains(CleanChunk(chunk), CleanName(name))
    \/ Contains(CleanName(name), CleanChunk(chunk))

\* sum over the chunks of count times the speed of the entry picked (0: none)
RECURSIVE PickedSpeed(_, _, _)
PickedSpeed(chunks, lan_lookup, pick) ==
    IF chunks = <<>> THEN 0
    ELSE (IF Head(pick) = 0 THEN 0
          ELSE MultiCount(Head(chunks)) * lan_lookup[Head(pick)].speed)
         + PickedSpeed(Tail(chunks), lan_lookup, Tail(pick))

\* C19: the LAN score is the sum, over the chunks of the text, of the speed of
\* at most one matched canonical controller per chunk times the chunk's
\* multiplier; "Realtek RTL8111H" scores 1000 when the lookup holds RTL8111
\* and RTL8111H at 1000, and "Intel I226-V, Marvell AQC113C" scores 12500.
C19_LanScoreIsSumPerChunk ==
    (pc = "done" /\ impl = "calculate_lan_score") =>
        /\ \E pick \in [1..Len(Chunks(args[1])) -> 0..Len(args[2])] :
              /\ \A i \in 1..Len(pick) :
                    pick[i] # 0 => MatchedIn(args[2][pick[i]].name, Chunks(args[1])[i])
              /\ ret[1] = PickedSpeed(Chunks(args[1]), args[2], pick)
        /\ (/\ args[1] = RealtekRTL8111H
            /\ HasEntry(args[2], NarrowRTL8111)
            /\ HasEntry(args[2], SpecificRTL8111H)) => ret[1] = 1000
        /\ (/\ args[1] = IntelAndMarvell
            /\ HasEntry(args[2], IntelI226V)
            /\ HasEntry(args[2], MarvellAQC113C)) => ret[1] = 12500

\* both examples are scored, the first with the specific name first in the lookup
C19_Witness ==
    /\ pc = "done" /\ impl = "calculate_lan_score"
    /\ args[1] = RealtekRTL8111H
    /\ Len(args[2]) >= 2
    /\ args[2][1] = SpecificRTL8111H
    /\ args[2][2] = NarrowRTL8111
    /\ ret[1] = 1000

\* how a canonical name stands to a chunk
IsExact(name, clean_chunk) == CleanName(name) = clean_chunk
IsContained(name, clean_chunk) ==
    ~IsExact(name, clean_chunk) /\ Contains(clean_chunk, CleanName(name))
IsContaining(name, clean_chunk) ==
    ~IsExact(name, clean_chunk) /\ ~IsContained(name, clean_chunk)
    /\ Contains(CleanName(name), clean_chunk)

\* C20: for every chunk, a canonical name equal to the chunk beats one that
\* the chunk contains, which beats one that contains the chunk; a name that
\* contains the chunk is counted only when the chunk has a digit.
C20_SelectionPrecedence ==
    (pc = "done" /\ impl = "normalize_lan_controller") =>
        /\ ret[1] = FoundIn(Chunks(args[1]), LookupKeys(args[2]))
        /\ \A i \in 1..Len(Chunks(args[1])) :
              LET clean_chunk == CleanChunk(Chunks(args[1])[i])
                  names == LookupKeys(args[2])
                  best == BestMatch(clean_chunk, names)
              IN  /\ (\E k \in 1..Len(names) : IsExact(names[k], clean_chunk))
                        => best # <<>> /\ IsExact(best[1], clean_chunk)
                  /\ (/\ \E k \in 1..Len(names) : IsContained(names[k], clean_chunk)
                      /\ best # <<>>)
                        => ~IsContaining(best[1], clean_chunk)
                  /\ (best # <<>> /\ IsContaining(best[1], clean_chunk))
                        => \E c \in 1..Len(clean_chunk) : clean_chunk[c] \in Digits

----------------------------------------------------------------------------
(* Scorecard: calculate_vrm_score and calculate_usb_header_score.
   Text is a sequence of characters; <<>> is an empty or missing value. *)

\* c.lower()
LowerChar(c) ==
    IF c \in UpperLetters THEN LowerSeq[CHOOSE i \in 1..Len(UpperSeq) : UpperSeq[i] = c]
    ELSE c

\* text.lower() and text.upper()
LowerText(s) == [i \in 1..Len(s) |-> LowerChar(s[i])]
UpperText(s) == [i \in 1..Len(s) |-> Upper(s[i])]

\* the digits of (\d+) matched from position i on
DigitsAt(s, i) == SubSeq(s, i, i + RunLen(s, i, Digits) - 1)

\* the position after (\d+)\s*[seps]\s* matched at position i, or 0 when (\d+) does not follow it
TimesAt(s, i, seps) ==
    LET n == RunLen(s, i, Digits)
        x == i + n + RunLen(s, i + n, Whitespace)
        j == x + 1 + RunLen(s, x + 1, Whitespace)
    IN  IF n > 0 /\ x <= Len(s) /\ s[x] \in seps /\ RunLen(s, j, Digits) > 0 THEN j ELSE 0

\* re.search: the first position where the pattern matches, or 0
FirstTimes(s, seps) ==
    IF \E i \in 1..Len(s) : TimesAt(s, i, seps) > 0
    THEN CHOOSE i \in 1..Len(s) :
            /\ TimesAt(s, i, seps) > 0
            /\ \A k \in 1..(i - 1) : TimesAt(s, k, seps) = 0
    ELSE 0

\* match_n: re.search(r'^(\d+)', p_text) looks at the start of the text only
LeadingNumber(p_text) == IF RunLen(p_text, 1, Digits) > 0 THEN IntOf(DigitsAt(p_text, 1)) ELSE 0

\* the first number anywhere in the text
FirstNumber(p_text) ==
    IF \E i \in 1..Len(p_text) : p_text[i] \in Digits
    THEN IntOf(DigitsAt(p_text, CHOOSE i \in 1..Len(p_text) :
                                    /\ p_text[i] \in Digits
                                    /\ \A k \in 1..(i - 1) : p_text[k] \notin Digits))
    ELSE 0

\* phases of calculate_vrm_score; fallback is the number read when there is no NxM
PhasesWith(p_text, fallback) ==
    LET i == FirstTimes(p_text, { "x" })
    IN  IF i > 0
        THEN IntOf(DigitsAt(p_text, i)) * IntOf(DigitsAt(p_text, TimesAt(p_text, i, { "x" })))
        ELSE fallback

Phases(p_text) == PhasesWith(p_text, LeadingNumber(p_text))

\* match_amp: re.search(r'(\d+)A', a_text)
AmpAt(s, i) ==
    LET n == RunLen(s, i, Digits) IN n > 0 /\ i + n <= Len(s) /\ s[i + n] = "A"

ParsedAmps(a_text) ==
    IF \E i \in 1..Len(a_text) : AmpAt(a_text, i)
    THEN IntOf(DigitsAt(a_text, CHOOSE i \in 1..Len(a_text) :
                                    /\ AmpAt(a_text, i)
                                    /\ \A k \in 1..(i - 1) : ~AmpAt(a_text, k)))
    ELSE 0

\* the 40A assumption when phases were found and no amperage
Amps(phases, a_text) ==
    IF phases > 0 /\ ParsedAmps(a_text) = 0 THEN 40 ELSE ParsedAmps(a_text)

SPS == <<"S", "P", "S">>

SpsBonus(a_text) == IF Contains(a_text, SPS) THEN 1 ELSE 0

DashText == <<"-">>

CalculateVrmScore(phase_text, amp_text) ==
    IF phase_text = <<>> \/ phase_text = DashText THEN 0
    ELSE LET p_text == LowerText(Strip(phase_text))
             a_text == UpperText(Strip(amp_text))
             phases == Phases(p_text)
         IN  phases * Amps(phases, a_text) + SpsBonus(a_text)

\* re.findall(r'(\d+)\s*[\*x]\s*(\d+)g', text): the matches from position i on, one after another
RECURSIVE UsbMatches(_, _)
UsbMatches(text, i) ==
    IF i > Len(text) THEN <<>>
    ELSE LET j == TimesAt(text, i, { "*", "x" })
             e == j + RunLen(text, j, Digits)
         IN  IF j > 0 /\ e <= Len(text) /\ text[e] = "g"
             THEN <<<<IntOf(DigitsAt(text, i)), IntOf(DigitsAt(text, j))>>>> \o UsbMatches(text, e + 1)
             ELSE UsbMatches(text, i + 1)

RECURSIVE UsbSum(_)
UsbSum(matches) ==
    IF matches = <<>> THEN 0
    ELSE matches[1][1] * matches[1][2] * 10 + UsbSum(Tail(matches))

\* no fallback: the sum as it is
PresenceFloorNever(score) == score

\* the fallback of a text that scored nothing
PresenceFloor(score) == IF score = 0 THEN 1 ELSE score

CalculateUsbHeaderScore(val) ==
    IF val = <<>> \/ val = DashText THEN 0
    ELSE PresenceFloor(UsbSum(UsbMatches(LowerText(val), 1)))

CalculateVrmScoreCall ==
    /\ pc = "call"
    /\ impl = "calculate_vrm_score"
    /\ ret' = <<CalculateVrmScore(args[1], args[2])>>
    /\ pc' = "done"
    /\ UNCHANGED <<impl, columns_info, args, uvars, tvars, hvars, lvars>>

CalculateUsbHeaderScoreCall ==
    /\ pc = "call"
    /\ impl = "calculate_usb_header_score"
    /\ ret' = <<CalculateUsbHeaderScore(args[1])>>
    /\ pc' = "done"
    /\ UNCHANGED <<impl, columns_info, args, uvars, tvars, hvars, lvars>>

Direct20 == <<"D", "i", "r", "e", "c", "t", " ", "2", "0", "+", "2", "+", "1">>
Amp50SPS == <<"5", "0", "A", " ", "S", "P", "S">>
Amp90DrMOS == <<"9", "0", "A", " ", "D", "r", "M", "O", "S">>
OneHighOneLow == <<"1", "H", "/", "1", "L">>
ZeroTimes20g == <<"0", "*", "2", "0", "g">>

\* Phase Config cells
PhaseTexts ==
    { <<>>,
      <<"-">>,
      <<"1", "6", "+", "2", "+", "1">>,
      <<"2", "x", "1", "2", "+", "2", "+", "1">>,
      <<"D", "i", "r", "e", "c", "t", " ", "2", "0", "+", "2", "+", "1">>,
      <<"8", " ", "x", " ", "2">>,
      <<"T", "e", "a", "m", "e", "d", " ", "8">>,
      <<" ", "1", "4", "+", "2", " ">>,
      <<"0">>,
      <<"D", "I", "R", "E", "C", "T", " ", "2", "X", "6">> }

\* VRM (VCore) cells
AmpTexts ==
    { <<>>,
      <<"-">>,
      <<"9", "0", "A">>,
      <<"1", "1", "0", "A", " ", "S", "P", "S">>,
      <<"5", "0", "A", " ", "S", "P", "S">>,
      <<"9", "0", "A", " ", "D", "r", "M", "O", "S">>,
      <<"1", "H", "/", "1", "L">>,
      <<"s", "p", "s", " ", "6", "0", "a">>,
      <<"0", "A">>,
      <<"S", "P", "S">> }

\* USB-C header cells
UsbTexts ==
    { <<>>,
      <<"-">>,
      <<"1", "*", "2", "0", "g">>,
      <<"0", "*", "2", "0", "g">>,
      <<"Y", "e", "s">>,
      <<"1", "x", " ", "2", "0", "G", "b", "p", "s", ",", " ", "2", "*", "5", "G">>,
      <<"2", " ", "X", " ", "1", "0", "G">>,
      <<"1", "*", "2", "0">>,
      <<"2", "0", "g">>,
      <<"1", " ", "*", " ", "0", "g">> }

InitScore ==
    /\ pc = "call"
    /\ \/ impl = "calculate_vrm_score" /\ args \in { <<p, a>> : p \in PhaseTexts, a \in AmpTexts }
       \/ impl = "calculate_usb_header_score" /\ args \in { <<v>> : v \in UsbTexts }
    /\ ret = <<>>
    /\ columns_info = <<>>
    /\ IdleUnflatten
    /\ IdleTree
    /\ IdleHeaders
    /\ IdleBook

NextScore == CalculateVrmScoreCall \/ CalculateUsbHeaderScoreCall

SpecScore == InitScore /\ [][NextScore]_vars

\* the score the way the VRM rule reads: NxM, else the first number found, else 0
ClaimedVrmScore(phase_text, amp_text) ==
    LET p_text == LowerText(Strip(phase_text))
        a_text == UpperText(Strip(amp_text))
        phases == PhasesWith(p_text, FirstNumber(p_text))
    IN  phases * Amps(phases, a_text) + SpsBonus(a_text)

(* C21: for a present phase text, the VRM score is phases * amps, plus 1 when the
   amperage text mentions SPS, where phases is N*M when the phase text holds NxM,
   otherwise the first number found in it (20 for "Direct 20+2+1"), otherwise 0,
   and amps is the integer before a literal A, or 40 when phases were found and
   no amperage was. *)
C21_VrmScoreIsPhasesTimesAmps ==
    (pc = "done" /\ impl = "calculate_vrm_score" /\ args[1] \notin { <<>>, DashText })
        => ret[1] = ClaimedVrmScore(args[1], args[2])

(* C22: the VRM score of the VRM (VCore) text is 2050 for "50A SPS", 1090 for
   "90A DrMOS" and 0 for "1H/1L", whatever the phase text: the tier outranks the
   amperage. *)
C22_VcoreTierOutranksAmperage ==
    (pc = "done" /\ impl = "calculate_vrm_score")
        => /\ args[2] = Amp50SPS => ret[1] = 2050
           /\ args[2] = Amp90DrMOS => ret[1] = 1090
           /\ args[2] = OneHighOneLow => ret[1] = 0

\* a header cell that is neither empty nor the placeholder
HeaderPresent(val) == val \notin { <<>>, DashText }

(* C23: the USB-C header score is the sum of count * speed * 10 over the
   count*speedG occurrences; an empty, missing or '-' value scores 0; any other
   value with no parseable occurrence scores 1. *)
C23_UsbHeaderScore ==
    (pc = "done" /\ impl = "calculate_usb_header_score")
        => LET matches == UsbMatches(LowerText(args[1]), 1)
           IN  /\ ~HeaderPresent(args[1]) => ret[1] = 0
               /\ HeaderPresent(args[1]) /\ matches # <<>> => ret[1] = UsbSum(matches)
               /\ HeaderPresent(args[1]) /\ matches = <<>> => ret[1] = 1

(* C23, amended: the USB-C header score is the sum of count * speed * 10 over the
   count*speedG occurrences when that sum is positive; an empty, missing or '-'
   value scores 0; any other value whose occurrences add up to nothing (none
   parseable, or a count or speed of 0) scores 1, so every present header scores
   strictly more than an absent one. *)
C23_UsbHeaderScoreFloor ==
    (pc = "done" /\ impl = "calculate_usb_header_score")
        => LET sum == UsbSum(UsbMatches(LowerText(args[1]), 1))
           IN  /\ ~HeaderPresent(args[1]) => ret[1] = 0
               /\ HeaderPresent(args[1]) /\ sum > 0 => ret[1] = sum
               /\ HeaderPresent(args[1]) /\ sum = 0 => ret[1] = 1
               /\ HeaderPresent(args[1]) => ret[1] > 0

\* "0*20g" was scored: an occurrence that adds nothing
C23_Witness ==
    /\ pc = "done"
    /\ impl = "calculate_usb_header_score"
    /\ args[1] = ZeroTimes20g
    /\ UsbMatches(LowerText(args[1]), 1) = <<<<0, 20>>>>
    /\ ret[1] = 1

----------------------------------------------------------------------------
(* Comparison scores of the page: "Total M.2 (M)" and "Wireless".  The page
   script that computes them (parseValue, exercised by tests/test_js_logic.py)
   is modelled from the scoring rules of the specification. *)

MaxSlots == 5

DigitSeq == <<"0", "1", "2", "3", "4", "5", "6", "7", "8", "9">>

\* the decimal text of a number below 100
NumText(n) ==
    IF n < 10 THEN <<DigitSeq[n + 1]>>
    ELSE <<DigitSeq[(n \div 10) + 1], DigitSeq[(n % 10) + 1]>>

\* the notation X(+Y); 0 add-in slots can be left out
TotalM2Text(x, y, bare) ==
    IF bare THEN NumText(x) ELSE NumText(x) \o <<"(", "+">> \o NumText(y) \o <<")">>

TotalM2Texts ==
    { TotalM2Text(x, 0, TRUE) : x \in 0..MaxSlots }
        \cup { TotalM2Text(x, y, FALSE) : x \in 0..MaxSlots, y \in 0..MaxSlots }

\* X of X(+Y): the native slots
NativeSlots(text) == IntOf(DigitsAt(text, 1))

\* Y of X(+Y): the slots of add-in cards, 0 when the text has no (+Y)
AddInSlots(text) ==
    LET n == RunLen(text, 1, Digits)
    IN  IF MatchAt(text, n + 1, <<"(", "+">>) THEN IntOf(DigitsAt(text, n + 3)) ELSE 0

\* the tie-break of a hundredfold native count, which overtakes the total
NativeBonusHundredfold(text) == 100 * NativeSlots(text)

\* the tie-break: the native slots
NativeBonus(text) == NativeSlots(text)

\* parseValue(val, "Total M.2 (M)").score
TotalM2Score(text) == (NativeSlots(text) + AddInSlots(text)) * 100 + NativeBonus(text)

Generations == { "7", "6E", "6", "5" }
Vendors == { "Intel", "Qualcomm", "Realtek", "MediaTek", "generic" }

\* what is read from a Wireless value: a Wi-Fi generation, an empty slot or
\* nothing, and the vendor of the card
WirelessValues == [gen : Generations \cup { "slot", "none" }, vendor : Vendors]

GenTier(gen) ==
    CASE gen = "7" -> 7000 [] gen = "6E" -> 6000 [] gen = "6" -> 5000 [] gen = "5" -> 4000
      [] gen = "slot" -> 1000 [] gen = "none" -> 0

\* a bonus that exceeds a generation step
VendorBonusTenfold(vendor) ==
    CASE vendor = "Intel" -> 5000 [] vendor = "Qualcomm" -> 4000 [] vendor = "Realtek" -> 3000
      [] vendor = "MediaTek" -> 2000 [] vendor = "generic" -> 1000

VendorBonus(vendor) ==
    CASE vendor = "Intel" -> 500 [] vendor = "Qualcomm" -> 400 [] vendor = "Realtek" -> 300
      [] vendor = "MediaTek" -> 200 [] vendor = "generic" -> 100

\* parseValue(val, "Wireless").score
WirelessScore(val) ==
    GenTier(val.gen) + (IF val.gen \in Generations THEN VendorBonus(val.vendor) ELSE 0)

\* two values of one row of the comparison
TotalM2ScoreCall ==
    /\ pc = "call"
    /\ impl = "Total M.2 (M)"
    /\ ret' = <<TotalM2Score(args[1]), TotalM2Score(args[2])>>
    /\ pc' = "done"
    /\ UNCHANGED <<impl, columns_info, args, uvars, tvars, hvars, lvars>>

WirelessScoreCall ==
    /\ pc = "call"
    /\ impl = "Wireless"
    /\ ret' = <<WirelessScore(args[1]), WirelessScore(args[2])>>
    /\ pc' = "done"
    /\ UNCHANGED <<impl, columns_info, args, uvars, tvars, hvars, lvars>>

InitCompare ==
    /\ pc = "call"
    /\ \/ impl = "Total M.2 (M)" /\ args \in TotalM2Texts \X TotalM2Texts
       \/ impl = "Wireless" /\ args \in WirelessValues \X WirelessValues
    /\ ret = <<>>
    /\ columns_info = <<>>
    /\ IdleUnflatten
    /\ IdleTree
    /\ IdleHeaders
    /\ IdleBook

NextCompare == TotalM2ScoreCall \/ WirelessScoreCall

SpecCompare == InitCompare /\ [][NextCompare]_vars

FivePlusTwo == <<"5", "(", "+", "2", ")">>
FiveNative == <<"5">>
ThreePlusTwo == <<"3", "(", "+", "2", ")">>

TotalSlots(text) == NativeSlots(text) + AddInSlots(text)

(* C24: "5(+2)" scores 705, "5" scores 505 and "3(+2)" scores 503; of two Total
   M.2 values the one with the larger total X+Y scores strictly higher, and at
   equal totals the one with more native slots X scores strictly higher. *)
C24_TotalRanksFirstNativeBreaksTies ==
    (pc = "done" /\ impl = "Total M.2 (M)")
        => /\ args[1] = FivePlusTwo => ret[1] = 705
           /\ args[1] = FiveNative => ret[1] = 505
           /\ args[1] = ThreePlusTwo => ret[1] = 503
           /\ TotalSlots(args[1]) > TotalSlots(args[2]) => ret[1] > ret[2]
           /\ (/\ TotalSlots(args[1]) = TotalSlots(args[2])
               /\ NativeSlots(args[1]) > NativeSlots(args[2])) => ret[1] > ret[2]

\* "5" was compared with "3(+2)": equal totals, more native slots
C24_Witness ==
    /\ pc = "done"
    /\ impl = "Total M.2 (M)"
    /\ args = <<FiveNative, ThreePlusTwo>>
    /\ TotalSlots(args[1]) = 5 /\ TotalSlots(args[2]) = 5
    /\ ret = <<505, 503>>

(* C25: the Wireless score is the generation tier (7000, 6000, 5000, 4000, or
   1000 for an empty slot) plus the vendor bonus (500, 400, 300, 200, 100) only
   when a generation is detected; of two values the one of the higher tier scores
   strictly higher whatever the vendors, and within one tier the vendor order
   decides. *)
C25_TierDominatesVendor ==
    (pc = "done" /\ impl = "Wireless")
        => /\ ret[1] = GenTier(args[1].gen)
                        + (IF args[1].gen \in Generations
                           THEN CASE args[1].vendor = "Intel" -> 500
                                  [] args[1].vendor = "Qualcomm" -> 400
                                  [] args[1].vendor = "Realtek" -> 300
                                  [] args[1].vendor = "MediaTek" -> 200
                                  [] args[1].vendor = "generic" -> 100
                           ELSE 0)
           /\ GenTier(args[1].gen) > GenTier(args[2].gen) => ret[1] > ret[2]
           /\ (/\ args[1].gen = args[2].gen
               /\ args[1].gen \in Generations
               /\ ret[1] > ret[2])
                    => VendorBonus(args[1].vendor) > VendorBonus(args[2].vendor)
           /\ args[1].gen = "slot" => ret[1] = 1000

\* a MediaTek Wi-Fi 7 card was compared with an Intel Wi-Fi 6E card
C25_Witness ==
    /\ pc = "done"
    /\ impl = "Wireless"
    /\ args[1] = [gen |-> "7", vendor |-> "MediaTek"]
    /\ args[2] = [gen |-> "6E", vendor |-> "Intel"]
    /\ ret = <<7200, 6500>>

----------------------------------------------------------------------------
(* load_data, step 6: one record becomes a motherboard record.  Keys and cell
   text are sequences of characters; a cell value carries its Python type. *)

MaxRowCols == 2

\* cell.value as openpyxl gives it: None, a str, an int or a float n.frac
CellValue(type, text, n, frac) == [type |-> type, text |-> text, n |-> n, frac |-> frac]
NoneCell == CellValue("NoneType", <<>>, 0, 0)
StrCell(text) == CellValue("str", text, 0, 0)
IntCell(n) == CellValue("int", <<>>, n, 0)
FloatCell(n, frac) == CellValue("float", <<>>, n, frac)

\* mutation: str(value) of a float, which keeps the .0 of a whole number
CleanFloatKeepPoint(value) == NumText(value.n) \o <<".">> \o NumText(value.frac)

\* clean_record_values: a float
CleanFloat(value) ==
    IF value.frac = 0 THEN NumText(value.n)
    ELSE NumText(value.n) \o <<".">> \o NumText(value.frac)

\* clean_record_values: one value
CleanCellValue(value) ==
    CASE value.type = "NoneType" -> <<>>
      [] value.type = "float" -> CleanFloat(value)
      [] value.type = "int" -> NumText(value.n)
      [] value.type = "str" -> ReplaceNewlines(Strip(value.text))

\* clean_record_values
CleanTypedRecord(rec) == [i \in 1..Len(rec) |-> <<rec[i][1], CleanCellValue(rec[i][2])>>]

\* unflatten_record: the whole loop
RECURSIVE UnflattenRecord(_)
UnflattenRecord(rec) ==
    IF rec = <<>> THEN EmptyDoc
    ELSE UnflattenItem(UnflattenRecord(Front(rec)), Last(rec)[1], Last(rec)[2])

Networking == <<"N", "e", "t", "w", "o", "r", "k", "i", "n", "g">>
LAN == <<"L", "A", "N">>
Ethernet == <<"E", "t", "h", "e", "r", "n", "e", "t">>
Controller == <<"C", "o", "n", "t", "r", "o", "l", "l", "e", "r">>

\* for k, v in clean_record.items(): the first key that names networking and LAN
\* or Ethernet gives lan_text
RECURSIVE LoaderLanText(_)
LoaderLanText(clean_record) ==
    IF clean_record = <<>> THEN <<>>
    ELSE LET k == Head(clean_record)[1]
         IN  IF Contains(k, Networking) /\ (Contains(k, LAN) \/ Contains(k, Ethernet))
             THEN Head(clean_record)[2]
             ELSE LoaderLanText(Tail(clean_record))

\* extract_scorecard: lan_text, the last value kept by the loop
RECURSIVE ScorecardLanText(_)
ScorecardLanText(record_) ==
    IF record_ = <<>> THEN DashText
    ELSE LET k_lower == LowerText(Last(record_)[1])
             v == Last(record_)[2]
         IN  IF /\ v # <<>> /\ v # DashText
                /\ Contains(k_lower, LowerText(Networking))
                /\ Contains(k_lower, LowerText(LAN))
                /\ (Contains(k_lower, LowerText(Controller)) \/ Contains(k_lower, LowerText(Ethernet)))
             THEN v
             ELSE ScorecardLanText(Front(record_))

\* load_lan_lookup()
LanLookup == <<IntelI226V, RealtekRTL8125>>

\* a value that is not a str: an int, a list or a dict of the scorecard
TypedEntry(type) == [isDict |-> FALSE, val |-> <<>>, type |-> type]

\* nested_specs[name] = ...
Inject(doc, path, entry) ==
    IF path \in DOMAIN doc THEN [doc EXCEPT ![path] = entry] ELSE doc @@ (path :> entry)

LanScoreKey == << <<"_lan_score">> >>
LanIdsKey == << <<"_lan_ids">> >>
ScorecardKey == << <<"_scorecard">> >>
PrivateKeys == { LanScoreKey[1], LanIdsKey[1], ScorecardKey[1] }

\* the scorecard as it is attached: lan_text, and lan_badges for its other entries
WithScorecard(doc, lan_text) ==
    Inject(Inject(Inject(doc, ScorecardKey, DictEntry),
                  Append(ScorecardKey, <<"lan_text">>), LeafEntry(lan_text)),
           Append(ScorecardKey, <<"lan_badges">>), TypedEntry("list"))

\* the body of `for idx, record in enumerate(records)`
MoboRecord(record_) ==
    LET clean_record == CleanTypedRecord(record_)
        nested_specs == UnflattenRecord(clean_record)
        lan_text == LoaderLanText(clean_record)
        canonical_controllers == NormalizeLanController(lan_text, LookupKeys(LanLookup))
        lan_score == TotalSpeed(LanLookup, canonical_controllers)
    IN  [specs |-> WithScorecard(Inject(Inject(nested_specs, LanScoreKey, TypedEntry("int")),
                                        LanIdsKey, TypedEntry("list")),
                                 ScorecardLanText(clean_record)),
         lan_text |-> lan_text,
         lan_score |-> lan_score,
         lan_ids |-> canonical_controllers]

MoboRecordStep ==
    /\ pc = "call"
    /\ impl = "load_data"
    /\ ret' = <<MoboRecord(args[1])>>
    /\ pc' = "done"
    /\ UNCHANGED <<impl, columns_info, args, uvars, tvars, hvars, lvars>>

RJ45Key == <<"G", "e", "n", "e", "r", "a", "l", "|", "N", "e", "t", "w", "o", "r", "k", "i", "n", "g", "|", "E", "t", "h", "e", "r", "n", "e", "t", "|", "#", " ", "R", "J", "-", "4", "5">>
LANKey == <<"G", "e", "n", "e", "r", "a", "l", "|", "N", "e", "t", "w", "o", "r", "k", "i", "n", "g", "|", "E", "t", "h", "e", "r", "n", "e", "t", "|", "L", "A", "N">>
LANControllerKey == <<"N", "e", "t", "w", "o", "r", "k", "i", "n", "g", "|", "L", "A", "N", " ", "C", "o", "n", "t", "r", "o", "l", "l", "e", "r">>
SlotsKey == <<"M", "e", "m", "o", "r", "y", "|", "S", "l", "o", "t", "s">>

RowKeys == { RJ45Key, LANKey, LANControllerKey, SlotsKey }

IntelI226VText == <<"I", "n", "t", "e", "l", " ", "I", "2", "2", "6", "-", "V">>

RowCells == { NoneCell, StrCell(IntelI226VText), IntCell(2), FloatCell(3, 0), FloatCell(3, 5) }

\* records: the columns of a sheet have distinct keys
RowRecords ==
    { r \in SeqsUpTo(RowKeys \X RowCells, MaxRowCols) :
        \A i, j \in 1..Len(r) : i # j => r[i][1] # r[j][1] }

InitRow ==
    /\ pc = "call"
    /\ impl = "load_data"
    /\ args \in { <<r>> : r \in RowRecords }
    /\ ret = <<>>
    /\ columns_info = <<>>
    /\ IdleUnflatten
    /\ IdleTree
    /\ IdleHeaders
    /\ IdleBook

NextRow == MoboRecordStep

SpecRow == InitRow /\ [][NextRow]_vars

\* an entry that holds a str
IsString(entry) == ~entry.isDict /\ "type" \notin DOMAIN entry

\* the entries that come from the cells of the row
CellPaths(doc) == { p \in DOMAIN doc : p[1] \notin PrivateKeys }

(* C26: every leaf of the SpecDocument produced for a row is a string and every
   non-leaf is a mapping. *)
C26_EveryLeafIsString ==
    (pc = "done" /\ impl = "load_data")
        => \A p \in DOMAIN ret[1].specs : ret[1].specs[p].isDict \/ IsString(ret[1].specs[p])

(* C26, amended: every leaf of the SpecDocument that comes from a cell of the row
   is a string and every non-leaf is a mapping: None becomes the empty string,
   numbers are stringified, and a float that is a whole number is rendered
   without a trailing .0 (3.0 gives "3"). *)
C26_CellLeavesAreStrings ==
    (pc = "done" /\ impl = "load_data")
        => LET doc == ret[1].specs
               record_ == args[1]
           IN  /\ \A p \in CellPaths(doc) : doc[p].isDict \/ IsString(doc[p])
               /\ \A i \in 1..Len(record_) :
                    LET p == Split(record_[i][1])
                        value == record_[i][2]
                    IN  /\ p \in DOMAIN doc /\ IsString(doc[p])
                        /\ value.type = "NoneType" => doc[p].val = <<>>
                        /\ value.type = "int" => doc[p].val = NumText(value.n)
                        /\ (value.type = "float" /\ value.frac = 0) => doc[p].val = NumText(value.n)
                        /\ (value.type = "float" /\ value.frac # 0)
                                => doc[p].val = NumText(value.n) \o <<".">> \o NumText(value.frac)

\* a row with the float 3.0 and an empty cell was processed
C26_Witness ==
    /\ pc = "done"
    /\ impl = "load_data"
    /\ args[1] = << <<SlotsKey, FloatCell(3, 0)>>, <<LANKey, NoneCell>> >>
    /\ ret[1].specs[Split(SlotsKey)].val = <<"3">>
    /\ ret[1].specs[Split(LANKey)].val = <<>>
    /\ ~IsString(ret[1].specs[LanScoreKey])

(* C30: the LAN text from which _lan_score and _lan_ids are computed is the cell
   value the scorecard reports as lan_text, whatever the order and names of the
   networking keys of the record. *)
C30_OneLanText ==
    (pc = "done" /\ impl = "load_data")
        => LET lan_text == ret[1].specs[Append(ScorecardKey, <<"lan_text">>)].val
           IN  (ret[1].lan_text # <<>> \/ lan_text # DashText) => ret[1].lan_text = lan_text

----------------------------------------------------------------------------
(* The descriptor list and the tree builder *)

(* C27: building the header tree leaves every descriptor's key, name and path
   unchanged, so the rows read afterwards are keyed by the keys the header
   reconstruction emitted. *)
C27_DescriptorsUnchanged ==
    [][ (pc = "build" /\ impl = "load_data") => columns_info' = columns_info ]_vars

(* C29: build_header_tree returns a tree without raising for every descriptor
   list, also when a name is first inserted as a leaf and a later descriptor has
   the same name at the same level as a parent in its path. *)
C29_BuildHeaderTreeTotal ==
    impl = "build_header_tree" => \A r \in 1..Len(results) : ~results[r].raised

----------------------------------------------------------------------------
(* DotWrapper (models/database.py).  A dict is the sequence of its items in
   insertion order; names and keys are sequences of characters. *)

MaxKeys == 2

\* a value of the wrapped dict: a string or a nested dict; a DotWrapper is
\* shown as the dict it wraps
TextValue(text) == [isDict |-> FALSE, data |-> <<>>, text |-> text]
DictValue(data) == [isDict |-> TRUE, data |-> data, text |-> <<>>]

\* DotWrapper({})
EmptyWrapper == DictValue(<<>>)

IsAlnum(c) == c \in LowerLetters \cup Digits
NotUnderscoreOrSpace(c) == c \notin { "_", " " }

\* re.sub(r'[^a-z0-9]', '', str(key).lower())
KeyClean(key) == SelectSeq(LowerText(key), IsAlnum)

\* name.lower().replace('_', '').replace(' ', '')
TargetClean(name) == SelectSeq(LowerText(name), NotUnderscoreOrSpace)

\* the first item whose cleaned key is the cleaned name, or 0
FuzzyIndex(data, name) ==
    IF \E i \in 1..Len(data) : KeyClean(data[i][1]) = TargetClean(name)
    THEN CHOOSE i \in 1..Len(data) :
            /\ KeyClean(data[i][1]) = TargetClean(name)
            /\ \A k \in 1..(i - 1) : KeyClean(data[k][1]) # TargetClean(name)
    ELSE 0

\* DotWrapper(data).__getattr__(name), also reached by __getitem__
GetAttr(data, name) ==
    IF \E i \in 1..Len(data) : data[i][1] = name
    THEN data[CHOOSE i \in 1..Len(data) : data[i][1] = name][2]
    ELSE IF FuzzyIndex(data, name) # 0 THEN data[FuzzyIndex(data, name)][2]
    ELSE EmptyWrapper

\* bool(wrapper)
Truthy(val) == IF val.isDict THEN val.data # <<>> ELSE val.text # <<>>

\* wrapper[name][name2]: the second lookup is made on a wrapper only
GetAttrCall ==
    /\ pc = "call"
    /\ impl = "DotWrapper.__getattr__"
    /\ LET first == GetAttr(args[1], args[2])
       IN  ret' = IF first.isDict THEN <<first, GetAttr(first.data, args[3])>> ELSE <<first>>
    /\ pc' = "done"
    /\ UNCHANGED <<impl, columns_info, args, uvars, tvars, hvars, lvars>>

Codec == <<"C", "o", "d", "e", "c">>

WrapperKeys ==
    { <<"#", " ", "R", "J", "-", "4", "5">>,
      <<"r", "j", "4", "5">>,
      <<"B", "r", "a", "n", "d">>,
      <<"R", "J", "_", "4", "5">> }

WrapperNames ==
    { <<"r", "j", "4", "5">>,
      <<"R", "J", "4", "5">>,
      <<"r", "j", "-", "4", "5">>,
      <<"R", "J", "_", "4", "5">>,
      <<"B", "r", "a", "n", "d">>,
      <<"b", "r", "a", "n", "d">>,
      <<"x">>,
      <<"#", " ", "R", "J", "-", "4", "5">>,
      <<"c", "o", "d", "e", "c">> }

WrapperValues ==
    { TextValue(<<"2">>), TextValue(<<"A", "S", "U", "S">>),
      DictValue(<< <<Codec, TextValue(<<"A", "L", "C">>)>> >>) }

WrappedDicts ==
    { m \in SeqsUpTo(WrapperKeys \X WrapperValues, MaxKeys) :
        \A i, j \in 1..Len(m) : i # j => m[i][1] # m[j][1] }

InitWrapper ==
    /\ pc = "call"
    /\ impl = "DotWrapper.__getattr__"
    /\ args \in { <<m, n, n2>> : m \in WrappedDicts, n \in WrapperNames, n2 \in { Codec, <<"x">> } }
    /\ ret = <<>>
    /\ columns_info = <<>>
    /\ IdleUnflatten
    /\ IdleTree
    /\ IdleHeaders
    /\ IdleBook

NextWrapper == GetAttrCall

SpecWrapper == InitWrapper /\ [][NextWrapper]_vars

\* lowercased, every non-alphanumeric character removed
Normalized(s) == SelectSeq(LowerText(s), IsAlnum)

(* C28: the lookup returns the value stored under a key that equals the name
   exactly, otherwise the value stored under a key that equals the name after
   lowercasing and removing every non-alphanumeric character from both, and
   otherwise an empty, falsy wrapper, on which a further lookup again returns an
   empty wrapper. *)
C28_FuzzyLookup ==
    (pc = "done" /\ impl = "DotWrapper.__getattr__")
        => LET data == args[1]
               name == args[2]
               Exact == { i \in 1..Len(data) : data[i][1] = name }
               Fuzzy == { i \in 1..Len(data) : Normalized(data[i][1]) = Normalized(name) }
           IN  /\ Exact # {} => \E i \in Exact : ret[1] = data[i][2]
               /\ (Exact = {} /\ Fuzzy # {}) => \E i \in Fuzzy : ret[1] = data[i][2]
               /\ (Exact = {} /\ Fuzzy = {})
                    => ret[1] = EmptyWrapper /\ ~Truthy(ret[1]) /\ ret[2] = EmptyWrapper

====
